---- MODULE Spec2Model ----
(***************************************************************************)
(* KeyLocker (SurpriseDog/KeyLocker): the vault engine of src/slots.py,    *)
(* the VBA envelope and hash tracker of src/bitfun.py, the Shamir engine   *)
(* of src/shamir.py and the password-retry loop of src/keylocker.py.       *)
(*                                                                         *)
(* Abstraction.  Byte counts, offsets and the file layout are the real     *)
(* integers of the code.  File contents are kept per 64-byte cell of the   *)
(* slot area (every seek target of write_slot is salt_len + 64*n) and per  *)
(* region outside it.  AES-OFB is an ideal stream cipher: a cell decrypts  *)
(* to its plaintext chunk exactly when it is read with the key and at the  *)
(* stream position it was written with, and to garbage otherwise.  The     *)
(* 8-byte SHA-512 checksum of the VBA is ideal: garbage never validates.   *)
(* In the file a Shamir share set is an ideal threshold scheme: k shares   *)
(* of one polynomial interpolate its secret, fewer or mixed shares give    *)
(* garbage.  The arithmetic behind it (make_shares, interpolate, _divmod)  *)
(* is run on its own over small primes in SpecShamir.                      *)
(***************************************************************************)
EXTENDS Integers, Sequences, FiniteSets, TLC

----------------------------------------------------------------------------
(* Program constants (class KeyLocker, class ABA)                          *)

slot_len == 64
max_len == 256
max_shamir == slot_len * 2
chk_len == 8
header == chk_len + 1
max_data == 255 - header
max_area == 1024 * 1024
max_reqs == 4
salt_max == 10 * 1024 * 1024

----------------------------------------------------------------------------
(* Bounds of the model                                                     *)

\* half-width of the windows of file sizes explored around each layout boundary
SizeSpan == 8

\* write_slot calls per behaviour
MaxWrites == 2

\* wipe calls per behaviour
MaxWipes == 1

\* largest password_tries given to read_datafile
MaxTries == 2

\* largest number of shares given to make_shares
MaxShares == 4
\* ByteTracker calls followed on their own: hash lengths up to MaxHashLen,
\* reservations of up to MaxCount bytes per slice, MaxReserves calls
MaxHashLen == 8
MaxCount == 2
MaxReserves == 3
\* ABA objects followed on their own: raw arrays with up to MaxRaw bytes
\* after the header, payloads of up to MaxPayload bytes
MaxRaw == 2
MaxPayload == 2
\* mouse positions the watcher samples
MaxMoves == 4

\* payload lengths given to write_slot: empty; one cell; the Shamir buffer
\* that ends on a cell boundary; four cells (too long for Shamir mode); the
\* first length the VBA rejects; the first length above 255
PayloadLens == {0, 54, 55, 240, 248, 256}

----------------------------------------------------------------------------
(* Helpers of sd/common.py                                                 *)

\* chunk_up(num, mult): num rounded up to a multiple of mult
chunk_up(num, mult) == ((num + mult - 1) \div mult) * mult

\* roundint(num, mult): num rounded to the nearest multiple of mult
roundint(num, mult) == ((num + mult \div 2) \div mult) * mult

\* error(...) and uerror(...): the message is printed and the program ends
error == "fatal"

Min(a, b) == IF a < b THEN a ELSE b
Max(a, b) == IF a > b THEN a ELSE b

\* len(str(size)) for a non-negative integer
RECURSIVE StrLen(_)
StrLen(n) == IF n < 10 THEN 1 ELSE 1 + StrLen(n \div 10)

----------------------------------------------------------------------------
(* Layout derivation: KeyLocker.calc_salt_size, KeyLocker.set_boundaries   *)

calc_salt_size(size) ==
    LET divisor == 8 * StrLen(size)
        salt == size \div divisor
        capped == IF salt > salt_max THEN salt_max ELSE salt
    IN  IF capped > 4096 * 4 THEN roundint(capped, 4096) ELSE capped

\* the area chosen by the three-way branch of set_boundaries
AreaOfMut(notsalt) ==
    IF notsalt >= max_area * 2 THEN max_area
    ELSE IF notsalt >= max_area \div 5 THEN notsalt \div 3
    ELSE notsalt

AreaOf(notsalt) ==
    IF notsalt >= max_area * 2 THEN max_area
    ELSE IF notsalt >= max_area \div 5 THEN notsalt \div 2
    ELSE notsalt

\* the last branch of set_boundaries, "File size too small, disabling
\* Shamir mode"
small_fileMut(notsalt) == FALSE

small_file(notsalt) ==
    ~ (notsalt >= max_area * 2) /\ ~ (notsalt >= max_area \div 5)

\* the slot target set_boundaries picks for an area of ar bytes
slot_target_ofMut(ar) == IF ar >= 512 * 1024 THEN 4 ELSE 8

slot_target_of(ar) == IF ar >= 1024 * 1024 THEN 4 ELSE 8

\* the sanity check "Not enough slots available" of set_boundaries
too_few_slotsMut(ns) == ns < 9

too_few_slots(ns) == ns < 10

\* set_boundaries(): the fields it assigns and whether one of its sanity
\* checks calls error().  sm is self.shamir_mode on entry.
set_boundaries(fsize, sm) ==
    LET sl == calc_salt_size(fsize)
        notsalt == fsize - sl * 2
        ar == AreaOf(notsalt)
        small == small_file(notsalt)
        st == fsize - sl * 2 - ar
        ns == (ar - max_len) \div slot_len
        tgt == slot_target_of(ar)
    IN  [salt_len |-> sl, area |-> ar, storage |-> st, num_slots |-> ns,
         shamir_mode |-> IF small THEN FALSE ELSE sm,
         slot_target |-> tgt, slot_max |-> tgt * 2 + 1,
         err |-> \/ fsize # sl * 2 + ar + st
                 \/ too_few_slots(ns)
                 \/ ns * slot_len + (max_len - slot_len) > ar]

----------------------------------------------------------------------------
(* State                                                                   *)

VARIABLES
    pc,           \* "absent" | "open" | "fatal" | "closed"
    filesize,     \* get_size(self.file)
    salt_len, area, storage, num_slots, slot_target, slot_max,
    shamir_mode,  \* self.shamir_mode
    testing,      \* self.testing
    fmode,        \* self.file.mode: "r+b" or "rb"
    umode,        \* UA.mode of the run that holds the vault: "write" or "read"
    phash,        \* self.phash (which password hash is loaded)
    file,         \* contents of the file
    dirty,        \* bytes written to the handle and not yet flushed
    clock,        \* number of operations that have written to the file
    nwrites,      \* number of write_slot calls made
    lastop,       \* the last operation and what it returned
    written,      \* the phashes under which write_slot has written to the file
    rd,           \* locals of keylocker.read_datafile
    shamir,       \* arguments and results of the calls made into shamir.py
    tracker,      \* the bitfun.ByteTracker in use and the slices it has handed out
    aba,          \* the bitfun.ABA object in use
    mouse         \* the watcher process, the shared array and the HashMouse that reads it

layoutVars == <<filesize, salt_len, area, storage, num_slots, slot_target, slot_max>>
vars == <<pc, filesize, salt_len, area, storage, num_slots, slot_target, slot_max,
          shamir_mode, testing, fmode, umode, phash, file, dirty, clock, nwrites, lastop, written, rd,
          shamir, tracker, aba, mouse>>

\* no call of shamir.make_shares has been made
NoShares == [state |-> "idle", prime |-> 0, minimum |-> 0, secret |-> 0,
             values |-> <<>>, combo |-> {}, result |-> 0]

\* no ByteTracker has been constructed
NoTracker == [state |-> "none", hash_len |-> 0, num_slots |-> 0, ptr |-> 0,
              calls |-> <<>>, sections |-> <<>>, status |-> "",
              slices |-> <<>>]

\* no ABA has been constructed.  An ABA is its bytearray arr, kept as the
\* checksum field (chk), the length byte (lb) and the bytes from header on
\* (body), with self.end, self.datas and self.updated
NoABA == [state |-> "none", chk |-> <<>>, lb |-> 0, body |-> <<>>,
          end |-> header, datas |-> <<>>, updated |-> TRUE]

\* no HashMouse has been constructed
NoMouse == [state |-> "none"]

----------------------------------------------------------------------------
(* Password hashes.  A phash is a long byte string; the model keeps, for   *)
(* each one, the integers of its offset slices and the identity of its key *)
(* slices.  "A" spreads its candidates; "B" has colliding and overlapping  *)
(* candidates and one in the last slot.                                    *)

PhashSet == {"A", "B"}

\* from_bytes(self.phash[self.tracker.offset[seg]])
offset_int(h, seg) ==
    IF h = "A" THEN 7 * seg + 3
    ELSE IF seg = 0 THEN 16379 ELSE (seg - 1) \div 2

\* KeyLocker.get_offset
get_offsetMut(h, seg) == offset_int(h, seg) * slot_len + salt_len

get_offset(h, seg) == (offset_int(h, seg) % num_slots) * slot_len + salt_len

\* KeyLocker.get_key: the (key, vector) slices of phash h for segment seg
get_key(h, seg) == <<h, seg>>

Segs == 0 .. (slot_max - 1)

----------------------------------------------------------------------------
(* File contents                                                           *)

\* 64 random bytes written by the operation numbered e (0: when the file
\* was created)
Rand(e) == [t |-> "rand", e |-> e, key |-> <<"-", 0>>, pos |-> 0,
            len |-> 0, j |-> 0, k |-> 0, w |-> 0, short |-> FALSE]

\* chunk j of a VBA buffer holding the payload (e, len), encrypted at stream
\* position pos under key
VbaCell(key, pos, e, len, j) ==
    [t |-> "vba", e |-> e, key |-> key, pos |-> pos,
     len |-> len, j |-> j, k |-> 0, w |-> 0, short |-> FALSE]

\* chunk j of the share at x = seg + 1 of the polynomial made by write e
\* for a VBA of w bytes with threshold k, encrypted under key
ShareCell(key, pos, e, len, j, k, w, short) ==
    [t |-> "share", e |-> e, key |-> key, pos |-> pos,
     len |-> len, j |-> j, k |-> k, w |-> w, short |-> short]

\* index of the 64-byte cell of the slot area that starts at byte off
CellOf(off) == (off - salt_len) \div slot_len

\* the cells some candidate slot of some phash can read or write
Cells == UNION { { CellOf(get_offset(h, seg)) + i : i \in 0 .. 3 } :
                 h \in PhashSet, seg \in Segs }

\* a byte range and what is written there: data is a sequence of cells for a
\* write on cell boundaries, <<>> for a bulk write of random bytes
Wr(lo, data, n) == [lo |-> lo, hi |-> lo + n, data |-> data]

\* file.seek(lo); file.write(...) on contents f, as operation number e
ApplyWrite(f, wr, e) ==
    LET aligned == wr.data # <<>> /\ (wr.lo - salt_len) % slot_len = 0
        cellLo(c) == salt_len + c * slot_len
        touched(c) == wr.lo < cellLo(c) + slot_len /\ cellLo(c) < wr.hi
        c0 == CellOf(wr.lo)
        tracked(c) == c \in DOMAIN f.cell
        \* the cells after the first i cells of the data are stored
        put[i \in 0 .. Len(wr.data)] ==
            IF i = 0 THEN f.cell
            ELSE IF tracked(c0 + i - 1)
                 THEN [put[i - 1] EXCEPT ![c0 + i - 1] = wr.data[i]]
                 ELSE put[i - 1]
        untracked ==
            IF aligned
            THEN \E i \in 0 .. (Len(wr.data) - 1) :
                    /\ ~ tracked(c0 + i)
                    /\ wr.lo + i * slot_len < salt_len + area
            ELSE wr.lo < salt_len + area /\ wr.hi > salt_len
    IN  [head |-> IF wr.lo < salt_len /\ wr.hi > wr.lo THEN e ELSE f.head,
         tail |-> IF wr.hi > filesize - salt_len /\ wr.hi > wr.lo THEN e ELSE f.tail,
         storage |-> IF /\ storage > 0
                        /\ wr.lo < filesize - salt_len
                        /\ wr.hi > salt_len + area
                     THEN e ELSE f.storage,
         rest |-> IF untracked THEN e ELSE f.rest,
         cell |-> IF aligned THEN put[Len(wr.data)]
                  ELSE [c \in DOMAIN f.cell |->
                          IF touched(c) THEN Rand(e) ELSE f.cell[c]]]

RECURSIVE ApplyWrites(_, _, _)
ApplyWrites(f, wrs, e) ==
    IF wrs = <<>> THEN f
    ELSE CHOOSE r \in { ApplyWrites(g, t, e) :
                         g \in { ApplyWrite(f, Head(wrs), e) },
                         t \in { Tail(wrs) } } : TRUE

\* file.seek(off); file.read(n * 64): the cells read
ReadCells(f, off, n) ==
    [i \in 1 .. n |->
        LET c == CellOf(off) + i - 1
        IN  IF c \in DOMAIN f.cell /\ (off - salt_len) % slot_len = 0
            THEN f.cell[c] ELSE Rand(0)]

\* a cipher that ignores its key
DecryptsMut(cellv, key, i) ==
    cellv.t # "rand" /\ cellv.pos = i - 1

\* crypto.decrypt_data in OFB mode: cell i of the ciphertext decrypts to its
\* plaintext when it was encrypted with this key at this stream position

Decrypts(cellv, key, i) ==
    cellv.t # "rand" /\ cellv.key = key /\ cellv.pos = i - 1

----------------------------------------------------------------------------
(* VBA envelope: class ABA of bitfun.py                                    *)

\* ABA.__init__: the capacity chosen for a payload of n bytes
aba_size(n, size) ==
    IF n + header > size THEN chunk_up(n + header, size) ELSE size

\* ABA.__init__ / ABA.scramble on a payload of n bytes: how construction ends
\* ("ok", or the exception raised before any file access)
aba_newMut(n) ==
    IF n = 0 THEN "AttributeError" ELSE "ok"

aba_new(n) ==
    IF n = 0 THEN "AttributeError"
    ELSE IF aba_size(n, slot_len) - header > 255 THEN "ValueError"
    ELSE "ok"

\* number of 64-byte cells that hold checksum, length byte and n payload bytes
NeedCells(n) == (header + n + slot_len - 1) \div slot_len

\* the payload written by write number e, of len bytes; Empty is bytearray()
Payload(e, len) == [e |-> e, len |-> len]
Empty == Payload(0, 0)

\* ABA(decrypt_data(cells, key), raw=True).validate(): the length byte fits
\* the array and the checksum matches the payload it delimits
validateMut(cells, key) ==
    /\ Decrypts(cells[1], key, 1)
    /\ cells[1].t = "vba"

validate(cells, key) ==
    /\ Decrypts(cells[1], key, 1)
    /\ cells[1].t = "vba"
    /\ cells[1].j = 0
    /\ header + cells[1].len <= Len(cells) * slot_len
    /\ \A i \in 1 .. NeedCells(cells[1].len) :
          /\ Decrypts(cells[i], key, i)
          /\ cells[i].t = "vba"
          /\ cells[i].e = cells[1].e
          /\ cells[i].len = cells[1].len
          /\ cells[i].j = i - 1

----------------------------------------------------------------------------
(* Read path: KeyLocker.read_slot, KeyLocker.read_shamir                   *)

\* the candidate slots whose decryption validates in the replicated scan
ValidSegs(f, h) ==
    { seg \in Segs :
        \E cells \in { ReadCells(f, get_offset(h, seg), max_len \div slot_len) } :
            validate(cells, get_key(h, seg)) }

\* datablock[seg][:data_len] of read_slot: TRUE when it is a whole share of
\* width data_len written under this key
ShareIntact(f, h, seg, data_len) ==
    LET cs == ReadCells(f, get_offset(h, seg), max_shamir \div slot_len)
        key == get_key(h, seg)
    IN  \A i \in 1 .. (data_len \div slot_len) :
          /\ Decrypts(cs[i], key, i)
          /\ cs[i].t = "share"
          /\ cs[i].w = data_len
          /\ cs[i].e = cs[1].e
          /\ cs[i].j = i - 1

\* the share stored for seg: which polynomial it is a point of
ShareOf(f, h, seg) ==
    LET c == ReadCells(f, get_offset(h, seg), 1)[1]
    IN  [e |-> c.e, len |-> c.len, k |-> c.k, short |-> c.short]

\* shamir.get_combos: the index sets tried, sizes 1 .. maximum
get_combos(share_c, maximum) ==
    { c \in SUBSET (1 .. share_c) : Cardinality(c) >= 1 /\ Cardinality(c) <= maximum }

\* read_shamir on the shares of width data_len: the payloads some combination
\* interpolates and validates.  A combination interpolates the secret when
\* all its shares are points of one polynomial and it has at least k of
\* them; to_bytes() of the secret drops its high zero bytes, and validate()
\* rejects the array when that cuts into the payload (short).
read_shamir(f, h, data_len) ==
    LET intact == { seg \in Segs : ShareIntact(f, h, seg, data_len) }
        sh == [seg \in intact |-> ShareOf(f, h, seg)]
        points(p) == { seg + 1 : seg \in { s \in intact : sh[s] = p } }
        good(p, c) == /\ c \in get_combos(slot_max, max_reqs)
                      /\ Cardinality(c) >= p.k
    IN  { Payload(p.e, p.len) :
          p \in { q \in { sh[s] : s \in intact } :
                  ~ q.short /\ \E c \in SUBSET points(q) : good(q, c) } }

\* one pass of the loop of read_slot's replicated scan, on candidate seg:
\* st is (found_count, valid, number of candidates read so far)
scan_step(f, h, seg, st) ==
    LET cells == ReadCells(f, get_offset(h, seg), max_len \div slot_len)
        ok == validate(cells, get_key(h, seg))
    IN  [found |-> IF ok THEN st.found + 1 ELSE st.found,
         valid |-> IF ok /\ st.found = 0
                   THEN Payload(cells[1].e, cells[1].len) ELSE st.valid,
         scanned |-> st.scanned + 1]

\* the loop over the candidates in the order drawn by rand.sample, left by
\* "break" once found_count >= 2
RECURSIVE scan_fromMut(_, _, _, _)
scan_fromMut(f, h, order, st) ==
    IF order = <<>> \/ st.found >= 3 THEN st
    ELSE CHOOSE r \in { scan_fromMut(f, h, t, s2) :
                         t \in { Tail(order) },
                         s2 \in { scan_step(f, h, Head(order), st) } } : TRUE

RECURSIVE scan_from(_, _, _, _)
scan_from(f, h, order, st) ==
    IF order = <<>> \/ st.found >= 2 THEN st
    ELSE CHOOSE r \in { scan_from(f, h, t, s2) :
                         t \in { Tail(order) },
                         s2 \in { scan_step(f, h, Head(order), st) } } : TRUE

\* the replicated scan of read_slot in the given order: found_count, the
\* payload kept in valid, the number of candidates read, and whether the
\* "No spare slots" warning is raised
replicated_scan(f, h, order) ==
    LET st == CHOOSE r \in { scan_from(f, h, order,
                                       [found |-> 0, valid |-> Empty, scanned |-> 0]) } : TRUE
    IN  [found |-> st.found, ret |-> st.valid, scanned |-> st.scanned,
         warn |-> st.found = 1 /\ ~ testing]

\* the scan orders explored, out of the permutations rand.sample can draw:
\* ascending and descending from segment 0 and from segment slot_target
ScanOrders ==
    { [i \in 1 .. slot_max |-> (r + s * (i - 1)) % slot_max] :
      r \in {0, slot_target}, s \in {1, slot_max - 1} }

\* read_slot: "for data_len in (self.slot_len, self.slot_len * 2)"
share_widthsMut == <<slot_len * 2, slot_len>>

share_widths == <<slot_len, slot_len * 2>>

\* the Shamir recovery of read_slot: the widths tried, in order, and the
\* values the first width that recovers something can give; bytearray()
\* when none does
shamir_recovery(f, h) ==
    LET try[i \in 1 .. 3] ==
            IF i = 3 THEN [widths |-> share_widths, rets |-> { Empty }]
            ELSE LET s == CHOOSE r \in { read_shamir(f, h, share_widths[i]) } : TRUE
                 IN  IF s # {}
                     THEN [widths |-> SubSeq(share_widths, 1, i), rets |-> s]
                     ELSE try[i + 1]
    IN  try[1]

\* read_slot: the set of values it can return (the scan order is random)
read_slot(f, h) ==
    LET found == ValidSegs(f, h)
        first(seg) == ReadCells(f, get_offset(h, seg), 1)[1]
    IN  IF found # {} THEN { Payload(first(seg).e, first(seg).len) : seg \in found }
        ELSE shamir_recovery(f, h).rets

----------------------------------------------------------------------------
(* Random draws                                                            *)

\* KeyLocker.get_slot_count: the values it can return
\* randint(a, b) of sd/common.py: an integer from a to b
randint(a, b) == a .. b

\* the random draws of one call of get_slot_count: r1 and r2 tell whether
\* the two rand.random() draws fall below .2 and .1, ri is the draw of
\* randint(1, slot_max - 1), v4 is four times lognormvariate(0, sigma) *
\* target (values in steps of a quarter, up to one above slot_max)
SlotDraws ==
    { [r1 |-> TRUE, r2 |-> FALSE, ri |-> 1, v4 |-> 4] }
    \cup { [r1 |-> FALSE, r2 |-> TRUE, ri |-> i, v4 |-> 4] :
           i \in randint(1, slot_max - 1) }
    \cup { [r1 |-> FALSE, r2 |-> FALSE, ri |-> 1, v4 |-> v] :
           v \in 1 .. (4 * slot_max + 4) }

\* the recursive call "return self.get_slot_count(target)"
Retry == 0

\* one call of get_slot_count(target) with the draws d: the value returned,
\* or Retry when it returns what a further call returns
slot_countMut(target, d) ==
    IF d.r1 THEN target
    ELSE IF target > 6 /\ d.r2 THEN d.ri
    ELSE LET value == IF d.v4 < 4 * target THEN d.v4 * 3 ELSE d.v4
         IN  IF value < 4 THEN 1 ELSE value \div 4

slot_count(target, d) ==
    IF d.r1 THEN target
    ELSE IF target > 6 /\ d.r2 THEN d.ri
    ELSE LET value == IF d.v4 < 4 * target THEN d.v4 * 3 ELSE d.v4
         IN  IF value > 4 * slot_max THEN Retry
             ELSE IF value < 4 THEN 1 ELSE value \div 4

\* the values get_slot_count(self.slot_target) can return
get_slot_count == { slot_count(slot_target, d) : d \in SlotDraws } \ { Retry }

\* the draws of get_slot_count that are explored
SlotCountDraws == { c \in get_slot_count : c \in {1, slot_max} }

\* the first segment of the activation vectors that are explored
Rotations == {0}

\* rand.shuffle of a vector with c ones: the activated segments.  The draws
\* explored are the runs of c segments with stride 1 or 2 from a rotation.
Activations(c) ==
    { { (r + s * i) % slot_max : i \in 0 .. (c - 1) } :
      r \in Rotations, s \in {1, 2} }

\* the writes w(seg) for the activated segments, in ascending segment order
SegWrites(V, w) ==
    LET ws[s \in 0 .. slot_max] ==
            IF s = slot_max THEN <<>>
            ELSE (IF s \in V THEN <<w[s]>> ELSE <<>>) \o ws[s + 1]
    IN  ws[0]

Ranges(wrs) == [i \in 1 .. Len(wrs) |-> <<wrs[i].lo, wrs[i].hi>>]

----------------------------------------------------------------------------
(* Write path: KeyLocker.write_slot, write_normal, write_shamir,           *)
(* get_valid_slots                                                         *)

\* the ghost scrub of write_slot: 64 random bytes on every candidate offset
ScrubWritesMut(h, e) == <<>>

ScrubWrites(h, e) ==
    SegWrites(Segs, [seg \in Segs |-> Wr(get_offset(h, seg), <<Rand(e)>>, slot_len)])

\* write_normal: the whole VBA buffer, encrypted with the key of the
\* segment, on the offset of each activated segment
write_normal(h, V, n, e) ==
    LET size == aba_size(n, slot_len)
        buf(seg) == [i \in 1 .. (size \div slot_len) |->
                        VbaCell(get_key(h, seg), i - 1, e, n, i - 1)]
    IN  SegWrites(V, [seg \in V |-> Wr(get_offset(h, seg), buf(seg), size)])

\* len(data.arr) in write_shamir: a buffer whose payload ends on a multiple
\* of 64 is extended by 64 bytes
shamir_data_len(n) ==
    LET size == aba_size(n, slot_len)
    IN  IF (header + n) % 64 = 0 THEN size + 64 ELSE size

\* test_offsets of get_valid_slots: consecutive sorted offsets are at least
\* data_len apart (stated on all pairs, which is the same thing)
test_offsetsMut(h, V, data_len) == TRUE

test_offsets(h, V, data_len) ==
    LET off == [seg \in V |-> get_offset(h, seg)]
    IN  \A a, b \in V :
            a # b => off[a] - off[b] >= data_len \/ off[b] - off[a] >= data_len

\* minimum of write_shamir when get_slot_count returns c: "min(
\* get_slot_count + 1, self.max_reqs, self.slot_max - self.slot_target)"
minimum_ofMut(c) == Min(c + 1, slot_max - slot_target)

minimum_of(c) == Min(Min(c + 1, max_reqs), slot_max - slot_target)

\* minimum of write_shamir: the threshold, for each draw of get_slot_count
Minimums == { minimum_of(c) : c \in SlotCountDraws }

\* valid_count of get_valid_slots when get_slot_count returns c
valid_count_of(c, minimum) == Min(slot_max, c - 1 + minimum)

\* valid_count of get_valid_slots, for each draw of get_slot_count
ValidCounts(minimum) == { valid_count_of(c, minimum) : c \in SlotCountDraws }

\* get_valid_slots gives up when no vector it can draw passes test_offsets
NoValidSlots(h, minimum, data_len) ==
    LET off == [seg \in Segs |-> get_offset(h, seg)]
        apart(V) == \A a, b \in V :
                       a # b => off[a] - off[b] >= data_len \/ off[b] - off[a] >= data_len
    IN  ~ \E V \in SUBSET Segs : Cardinality(V) = minimum /\ apart(V)

\* write_shamir: share x = seg + 1, encrypted with the key of the segment,
\* on the offset of each activated segment
write_shamir(h, V, n, e, minimum, short) ==
    LET data_len == shamir_data_len(n)
        share(seg) == [i \in 1 .. (data_len \div slot_len) |->
                          ShareCell(get_key(h, seg), i - 1, e, n, i - 1,
                                    minimum, data_len, short)]
    IN  SegWrites(V, [seg \in V |-> Wr(get_offset(h, seg), share(seg), data_len)])

\* write_slot's test before the scrub: "if self.testing or self.read_slot()"
scrub_neededMut(pre) == testing

scrub_needed(pre) == testing \/ pre # { Empty }

\* write_slot's verification of the read-back: empty is a fatal error
verifyMut(ret) == "ok"

verify(ret) == IF ret = Empty THEN "verify_failed" ELSE "ok"

\* self.shamir_mode after write_slot's test "Shamir mode is limited to:
\* max_shamir ... Reverting to normal mode."
use_shamirMut(n) == shamir_mode

use_shamir(n) == shamir_mode /\ ~ (n + header >= max_shamir)

\* the outcomes of write_slot(data) with len(data) = n, as write number e
write_slot(n, e) ==
    LET sm == use_shamir(n)
        pre == read_slot(file, phash)
        scrub == scrub_needed(pre)
        sw == IF scrub THEN ScrubWrites(phash, e) ELSE <<>>
        f1 == ApplyWrites(file, sw, e)
        \* read_slot calls made before the first write: "testing or read_slot()"
        r0 == IF testing THEN 0 ELSE 1
        out(status, f, wrs, ret, d, rds) ==
            [status |-> status, sm |-> sm, file |-> f, wlog |-> Ranges(wrs),
             ret |-> ret, dirty |-> d, reads |-> rds]
        \* flush, read back, verify
        done(wrs) ==
            UNION { { out(verify(ret), f2, wrs, ret, FALSE, r0 + 1) :
                      ret \in read_slot(f2, phash) } :
                    f2 \in { ApplyWrites(file, wrs, e) } }
        data_len == shamir_data_len(n)
        pad == data_len - (header + n)
    IN  IF aba_new(n) # "ok"
        THEN { out(aba_new(n), file, <<>>, Empty, dirty, 0) }
        ELSE IF fmode = "rb" /\ sw # <<>>
        THEN { out("io_error", file, <<>>, Empty, dirty, r0) }
        ELSE IF ~ sm
        THEN IF fmode = "rb" THEN { out("io_error", file, <<>>, Empty, dirty, r0) }
             ELSE UNION { done(sw \o write_normal(phash, V, n, e)) :
                          V \in UNION { Activations(c) : c \in SlotCountDraws } }
        ELSE UNION {
               IF NoValidSlots(phash, minimum, data_len)
               THEN { out("no_config", f1, sw, Empty, dirty \/ sw # <<>>, r0) }
               ELSE IF fmode = "rb" THEN { out("io_error", file, <<>>, Empty, dirty, r0) }
               ELSE UNION { done(sw \o write_shamir(phash, V, n, e, minimum,
                                                   data_len - z < header + n)) :
                            V \in { U \in UNION { Activations(c) : c \in ValidCounts(minimum) } :
                                    test_offsets(phash, U, data_len) },
                            z \in {pad, pad + 1} }
               : minimum \in Minimums }

\* KeyLocker.wipe: the byte ranges it overwrites
wipeAllMut(reps) ==
    LET pass == << Wr(0, <<>>, filesize) >>
        w[i \in 0 .. reps] == IF i = 0 THEN <<>> ELSE pass \o w[i - 1]
    IN  IF fmode = "rb" THEN <<>> ELSE w[reps]

wipeMut(reps) ==
    LET pass == << Wr(0, <<>>, salt_len), Wr(filesize - salt_len, <<>>, salt_len) >>
        w[i \in 0 .. reps] == IF i = 0 THEN <<>> ELSE pass \o w[i - 1]
    IN  IF fmode = "rb" THEN <<>> ELSE w[reps]

wipe(reps) ==
    LET pass == << Wr(0, <<>>, salt_len + area),
                   Wr(filesize - salt_len, <<>>, salt_len) >>
        w[i \in 0 .. reps] == IF i = 0 THEN <<>> ELSE pass \o w[i - 1]
    IN  IF fmode = "rb" THEN <<>> ELSE w[reps]

----------------------------------------------------------------------------
(* Operations of the vault                                                 *)

NoOp == [op |-> "none", status |-> "", ret |-> Empty, len |-> 0, e |-> 0,
         wlog |-> <<>>, reads |-> 0]

\* a file of random bytes, as crypto.create_random_file leaves it
BlankFile == [head |-> 0, tail |-> 0, storage |-> 0, rest |-> 0,
              cell |-> [c \in Cells |-> Rand(0)]]

\* file sizes of the vaults that are written and read: 1200 bytes (salt 37,
\* 13 slots, 17 candidates, Shamir mode disabled) and 4128768 bytes (salt
\* 73728, 1 MiB slot area of 16380 slots, 9 candidates)
FileSizes == {1200, 4128768}

\* KeyLocker.__init__ with a phash, on a file of fsize bytes
Construct(fsize, sm, tst, md, h, clk) ==
    LET b == set_boundaries(fsize, sm)
    IN  /\ ~ b.err
        /\ pc = "open"
        /\ filesize = fsize
        /\ salt_len = b.salt_len
        /\ area = b.area
        /\ storage = b.storage
        /\ num_slots = b.num_slots
        /\ slot_target = b.slot_target
        /\ slot_max = b.slot_max
        /\ shamir_mode = b.shamir_mode
        /\ testing = tst
        /\ fmode = md
        /\ umode = "write"
        /\ phash = h
        /\ dirty = FALSE
        /\ clock = clk
        /\ nwrites = clk
        /\ lastop = NoOp
        /\ rd = [state |-> "idle", tri |-> 0, tries |-> 0, wipe |-> FALSE,
                 wipes |-> 0]
        /\ shamir = NoShares
        /\ tracker = NoTracker
        /\ aba = NoABA
        /\ mouse = NoMouse

Init ==
    \E fsize \in FileSizes, sm \in BOOLEAN, tst \in BOOLEAN,
       md \in {"r+b", "rb"}, h \in PhashSet :
        /\ Construct(fsize, sm, tst, md, h, 0)
        /\ file = BlankFile
        /\ written = {}

\* KeyLocker.write_slot(data) with len(data) = n
WriteLen(n) ==
    /\ pc = "open"
    /\ umode = "write"
    /\ nwrites < MaxWrites
    /\ \E o \in write_slot(n, clock + 1) :
          /\ shamir_mode' = o.sm
          /\ file' = o.file
          /\ dirty' = o.dirty
          /\ pc' = IF o.status = "ok" THEN "open"
                   ELSE IF o.status \in {"verify_failed", "no_config"} THEN error
                   ELSE "fatal"
          /\ lastop' = [op |-> "write_slot", status |-> o.status, ret |-> o.ret,
                        len |-> n, e |-> clock + 1, wlog |-> o.wlog,
                        reads |-> o.reads]
          /\ written' = IF o.wlog = <<>> THEN written ELSE written \cup {phash}
    /\ clock' = clock + 1
    /\ nwrites' = nwrites + 1
    /\ UNCHANGED <<layoutVars, testing, fmode, umode, phash, rd, shamir, tracker, aba, mouse>>

\* KeyLocker.write_slot(data)
WriteSlot == \E n \in PayloadLens : WriteLen(n)

\* KeyLocker.read_slot()
ReadSlotMut ==
    /\ pc = "open"
    /\ \E ret \in read_slot(file, phash) :
          lastop' = [op |-> "read_slot", status |-> "ok", ret |-> ret,
                     len |-> 0, e |-> clock, wlog |-> <<>>, reads |-> 1]
    /\ file' = ApplyWrites(file, ScrubWrites(phash, clock + 1), clock + 1)
    /\ UNCHANGED <<layoutVars, shamir_mode, testing, fmode, umode, phash, dirty,
                   clock, nwrites, pc, written, rd, shamir, tracker, aba, mouse>>

ReadSlot ==
    /\ pc = "open"
    /\ \E ret \in read_slot(file, phash) :
          lastop' = [op |-> "read_slot", status |-> "ok", ret |-> ret,
                     len |-> 0, e |-> clock, wlog |-> <<>>, reads |-> 1]
    /\ UNCHANGED <<layoutVars, shamir_mode, testing, fmode, umode, phash, file, dirty,
                   clock, nwrites, pc, written, rd, shamir, tracker, aba, mouse>>

\* KeyLocker.set_phash(phash) with the hash of another password.  A run of
\* keylocker.main in write mode loads one phash; passwords are tried one
\* after another only in read mode, which never calls write_slot.
SetPhash ==
    /\ pc = "open"
    /\ \E h \in PhashSet \ {phash} :
          phash' = h
    /\ umode' = "read"
    /\ lastop' = [NoOp EXCEPT !.op = "set_phash", !.e = clock]
    /\ UNCHANGED <<layoutVars, shamir_mode, testing, fmode, file, dirty,
                   clock, nwrites, pc, written, rd, shamir, tracker, aba, mouse>>

\* KeyLocker.wipe()
Wipe ==
    /\ pc = "open"
    /\ clock - nwrites < MaxWipes
    /\ LET wrs == wipe(3)
       IN  /\ file' = ApplyWrites(file, wrs, clock + 1)
           /\ dirty' = IF wrs = <<>> THEN dirty ELSE FALSE
           /\ lastop' = [NoOp EXCEPT !.op = "wipe", !.e = clock + 1,
                                     !.wlog = Ranges(wrs)]
    /\ clock' = clock + 1
    /\ UNCHANGED <<layoutVars, shamir_mode, testing, fmode, umode, phash, nwrites, pc,
                   written, rd, shamir, tracker, aba, mouse>>

\* KeyLocker.close()
Close ==
    /\ pc = "open"
    /\ rd.state # "loop"
    /\ pc' = "closed"
    /\ dirty' = FALSE
    /\ phash' = "wiped"
    /\ lastop' = [NoOp EXCEPT !.op = "close", !.e = clock]
    /\ UNCHANGED <<layoutVars, shamir_mode, testing, fmode, umode, file, clock, nwrites,
                   written, rd, shamir, tracker, aba, mouse>>

Next == WriteSlot \/ ReadSlot \/ SetPhash \/ Wipe \/ Close

Spec == Init /\ [][Next]_vars

----------------------------------------------------------------------------
(* Opening files of many sizes: KeyLocker.__init__ up to set_boundaries    *)

\* the sizes within SizeSpan bytes of c
Around(c) == (c - SizeSpan) .. (c + SizeSpan)

\* file sizes around the branch points of set_boundaries: a file shorter
\* than one long slot (100), the smallest accepted file (976), a small file, not-salt = max_area // 5 (218831),
\* not-salt = 2 * max_area (2170880), 2 MiB, 4 MiB, and a file whose salt is
\* capped at 10 MiB
LayoutSizes ==
    Around(100) \cup Around(976) \cup Around(20000) \cup Around(218831) \cup Around(2170880)
    \cup Around(2097152) \cup Around(4194304) \cup Around(900000000)

InitLayout ==
    /\ pc = "absent"
    /\ filesize = 0 /\ salt_len = 0 /\ area = 0 /\ storage = 0
    /\ num_slots = 0 /\ slot_target = 0 /\ slot_max = 0
    /\ shamir_mode \in BOOLEAN
    /\ testing = FALSE
    /\ fmode = "r+b"
    /\ umode = "write"
    /\ phash = "A"
    /\ file = [head |-> 0, tail |-> 0, storage |-> 0, rest |-> 0,
               cell |-> [c \in {} |-> Rand(0)]]
    /\ dirty = FALSE
    /\ clock = 0
    /\ nwrites = 0
    /\ lastop = NoOp
    /\ written = {}
    /\ rd = [state |-> "idle", tri |-> 0, tries |-> 0, wipe |-> FALSE, wipes |-> 0]
    /\ shamir = NoShares
    /\ tracker = NoTracker
    /\ aba = NoABA
    /\ mouse = NoMouse

\* KeyLocker.__init__: get_size and set_boundaries on a file of any size
Open ==
    /\ pc = "absent"
    /\ \E fsize \in LayoutSizes :
          LET b == set_boundaries(fsize, shamir_mode)
          IN  /\ pc' = IF b.err THEN error ELSE "open"
              /\ filesize' = fsize
              /\ salt_len' = b.salt_len
              /\ area' = b.area
              /\ storage' = b.storage
              /\ num_slots' = b.num_slots
              /\ slot_target' = b.slot_target
              /\ slot_max' = b.slot_max
              /\ shamir_mode' = b.shamir_mode
    /\ lastop' = [NoOp EXCEPT !.op = "open"]
    /\ UNCHANGED <<testing, fmode, umode, phash, file, dirty, clock, nwrites,
                   written, rd, shamir, tracker, aba, mouse>>

\* one call of get_slot_count(self.slot_target) on the opened vault
DrawSlotCount ==
    /\ pc = "open"
    /\ \E c \in get_slot_count :
          lastop' = [NoOp EXCEPT !.op = "get_slot_count", !.len = c]
    /\ UNCHANGED <<pc, layoutVars, shamir_mode, testing, fmode, umode, phash, file,
                   dirty, clock, nwrites, written, rd, shamir, tracker, aba, mouse>>

NextLayout == Open \/ DrawSlotCount \/ Close

SpecLayout == InitLayout /\ [][NextLayout]_vars

----------------------------------------------------------------------------
(* keylocker.read_datafile on a file that holds a secret                   *)

\* the writes of an earlier run that stored a 54-byte secret under phash h
StoredSecret(h) ==
    IF shamir_mode
    THEN { write_shamir(h, V, 54, 1, 2, FALSE) :
           V \in { U \in UNION { Activations(c) : c \in ValidCounts(2) } :
                   test_offsets(h, U, shamir_data_len(54)) } }
    ELSE { write_normal(h, V, 54, 1) :
           V \in UNION { Activations(c) : c \in SlotCountDraws } }

InitRD ==
    \E fsize \in FileSizes, sm \in BOOLEAN, md \in {"r+b", "rb"},
       hw \in PhashSet, h \in PhashSet :
        /\ Construct(fsize, sm, FALSE, md, h, 1)
        /\ \E wrs \in StoredSecret(hw) : file = ApplyWrites(BlankFile, wrs, 1)
        /\ written = {hw}

\* read_datafile: "if tri <= UA.password_tries"
more_triesMut(tri, n) == tri < n

more_tries(tri, n) == tri <= n

\* read_datafile is entered: tri = 0, with UA.password_tries and
\* UA.wipe_on_max_tries
StartReadDatafile ==
    /\ pc = "open"
    /\ rd.state = "idle"
    /\ \E n \in 0 .. MaxTries, w \in BOOLEAN :
          rd' = [state |-> "loop", tri |-> 0, tries |-> n, wipe |-> w, wipes |-> 0]
    /\ umode' = "read"
    /\ lastop' = [NoOp EXCEPT !.op = "read_datafile", !.e = clock]
    /\ UNCHANGED <<layoutVars, shamir_mode, testing, fmode, phash, file, dirty,
                   clock, nwrites, pc, written, shamir, tracker, aba, mouse>>

\* one turn of the loop of read_datafile: a password is typed, its hash is
\* loaded, read_slot is called; data ends the loop, an empty result sleeps
\* or, past the allowed tries, wipes (when asked to) and ends in error()
ReadDatafileTry ==
    /\ pc = "open"
    /\ rd.state = "loop"
    /\ \E h \in PhashSet : \E data \in read_slot(file, h) :
          LET tri == rd.tri + 1
              last == data = Empty /\ ~ more_tries(tri, rd.tries)
              wrs == IF last /\ rd.wipe THEN wipe(3) ELSE <<>>
              e == IF last /\ rd.wipe THEN clock + 1 ELSE clock
          IN  /\ phash' = h
              /\ rd' = [rd EXCEPT !.tri = tri,
                                  !.state = IF data # Empty THEN "returned"
                                            ELSE IF last THEN "error" ELSE "loop",
                                  !.wipes = IF last /\ rd.wipe THEN @ + 1 ELSE @]
              /\ file' = ApplyWrites(file, wrs, e)
              /\ clock' = e
              /\ dirty' = IF wrs = <<>> THEN dirty ELSE FALSE
              /\ pc' = IF last THEN error ELSE "open"
              /\ lastop' = [op |-> "read_datafile",
                            status |-> IF last THEN "error" ELSE "ok",
                            ret |-> data, len |-> 0, e |-> e, wlog |-> Ranges(wrs),
                            reads |-> 1]
    /\ UNCHANGED <<layoutVars, shamir_mode, testing, fmode, umode, nwrites, written, shamir, tracker, aba, mouse>>

NextRD == StartReadDatafile \/ ReadDatafileTry \/ Close

SpecRD == InitRD /\ [][NextRD]_vars

----------------------------------------------------------------------------
(* Vaults on small and medium files: KeyLocker.__init__, write_slot,       *)
(* read_slot                                                               *)

\* 975 bytes (9 slots: refused), 20000 bytes (not-salt 19000, Shamir mode
\* disabled), 218831 bytes (not-salt 209715, area 104857, 17 candidates),
\* 2097152 bytes (area 1011712, 17 candidates)
VaultSizes == {975, 20000, 218831, 2097152}

\* KeyLocker.__init__ ended in error(): the fields set_boundaries assigned
Refused(fsize, sm) ==
    LET b == set_boundaries(fsize, sm)
    IN  /\ b.err
        /\ pc = error
        /\ filesize = fsize
        /\ salt_len = b.salt_len
        /\ area = b.area
        /\ storage = b.storage
        /\ num_slots = b.num_slots
        /\ slot_target = 0
        /\ slot_max = 0
        /\ shamir_mode = b.shamir_mode
        /\ testing = FALSE
        /\ fmode = "r+b"
        /\ umode = "write"
        /\ phash = "A"
        /\ file = [head |-> 0, tail |-> 0, storage |-> 0, rest |-> 0,
                   cell |-> [c \in {} |-> Rand(0)]]
        /\ dirty = FALSE
        /\ clock = 0
        /\ nwrites = 0
        /\ lastop = [NoOp EXCEPT !.op = "open"]
        /\ written = {}
        /\ rd = [state |-> "idle", tri |-> 0, tries |-> 0, wipe |-> FALSE,
                 wipes |-> 0]
        /\ shamir = NoShares
        /\ tracker = NoTracker
        /\ aba = NoABA
        /\ mouse = NoMouse

InitSizes ==
    \E fsize \in VaultSizes, sm \in BOOLEAN :
        \/ Refused(fsize, sm)
        \/ /\ Construct(fsize, sm, FALSE, "r+b", "A", 0)
           /\ file = BlankFile
           /\ written = {}

NextSizes == WriteSlot \/ ReadSlot \/ Close

SpecSizes == InitSizes /\ [][NextSizes]_vars

----------------------------------------------------------------------------
(* Secret sharing arithmetic: shamir._divmod, shamir.interpolate,          *)
(* shamir.make_shares                                                      *)

\* the primes the arithmetic is run over; the code draws a prime as wide as
\* the secret, far above the number of shares
Primes == {5, 7}

\* math.prod of a sequence of integers
RECURSIVE product(_)
product(s) == IF s = <<>> THEN 1 ELSE Head(s) * product(Tail(s))

\* the while loop of _divmod: the extended Euclidean algorithm, returning
\* last_x
RECURSIVE divmod_loop(_, _, _, _)
divmod_loop(den, prime, x, last_x) ==
    IF prime = 0 THEN last_x
    ELSE LET quotient == den \div prime
         IN  divmod_loop(prime, den % prime, last_x - quotient * x, x)

\* shamir._divmod
divmod(num, den, prime) == num * divmod_loop(den, prime, 0, 1)

\* shamir.interpolate: the Lagrange polynomial through (indexes[i],
\* values[i]) evaluated at 0
interpolate(prime, indexes, values) ==
    LET n == Len(indexes)
        others(c) == [i \in 1 .. n - 1 |->
                        IF i < c THEN indexes[i] ELSE indexes[i + 1]]
        nums == [c \in 1 .. n |->
                    product([i \in 1 .. n - 1 |-> 0 - others(c)[i]])]
        dens == [c \in 1 .. n |->
                    product([i \in 1 .. n - 1 |-> indexes[c] - others(c)[i]])]
        den == product(dens)
        total[c \in 0 .. n] ==
            IF c = 0 THEN 0
            ELSE total[c - 1]
                 + divmod((nums[c] * den * values[c]) % prime, dens[c], prime)
    IN  (divmod(total[n], den, prime) + prime) % prime

\* the values randint(prime) of shamir.py can return
randint_prime(prime) == 0 .. prime

\* shamir.make_shares: the polynomial with constant term secret and the
\* drawn coefficients coeffs, evaluated by Horner's rule at count + 1 for
\* count in range(shares)
make_sharesMut(minimum, shares, prime, secret, coeffs) ==
    LET poly == <<secret>> \o coeffs
        total[x \in 0 .. shares, i \in 0 .. minimum] ==
            IF i = 0 THEN 0
            ELSE (total[x, i - 1] * x + poly[minimum - i + 1]) % prime
    IN  [count \in 1 .. shares |-> total[count - 1, minimum]]

make_shares(minimum, shares, prime, secret, coeffs) ==
    LET poly == <<secret>> \o coeffs
        total[x \in 1 .. shares, i \in 0 .. minimum] ==
            IF i = 0 THEN 0
            ELSE (total[x, i - 1] * x + poly[minimum - i + 1]) % prime
    IN  [count \in 1 .. shares |-> total[count, minimum]]

\* sorted(combo)
RECURSIVE sorted(_)
sorted(S) ==
    IF S = {} THEN <<>>
    ELSE LET m == CHOOSE x \in S : \A y \in S : x <= y
         IN  <<m>> \o sorted(S \ {m})

InitShamir ==
    /\ InitLayout
    /\ shamir_mode = TRUE

\* write_shamir's call of make_shares: a threshold of 2 to max_reqs, at
\* least as many shares, a secret below the prime
MakeShares ==
    /\ shamir.state = "idle"
    /\ \E prime \in Primes, shares \in 2 .. MaxShares :
       \E minimum \in 2 .. Min(max_reqs, shares), secret \in 0 .. (prime - 1) :
       \E coeffs \in [1 .. minimum - 1 -> randint_prime(prime)] :
          /\ shares < prime
          /\ shamir' = [NoShares EXCEPT
                          !.state = "shared", !.prime = prime,
                          !.minimum = minimum, !.secret = secret,
                          !.values = make_shares(minimum, shares, prime,
                                                 secret, coeffs)]
    /\ UNCHANGED <<pc, layoutVars, shamir_mode, testing, fmode, umode, phash, file,
                   dirty, clock, nwrites, lastop, written, rd, tracker, aba, mouse>>

\* read_shamir's call of interpolate on one combination of the shares
Interpolate ==
    /\ shamir.state = "shared"
    /\ \E combo \in SUBSET (1 .. Len(shamir.values)) \ {{}} :
          LET indexes == sorted(combo)
              values == [i \in 1 .. Len(indexes) |-> shamir.values[indexes[i]]]
          IN  shamir' = [shamir EXCEPT
                          !.state = "combined", !.combo = combo,
                          !.result = interpolate(shamir.prime, indexes, values)]
    /\ UNCHANGED <<pc, layoutVars, shamir_mode, testing, fmode, umode, phash, file,
                   dirty, clock, nwrites, lastop, written, rd, tracker, aba, mouse>>

NextShamir == MakeShares \/ Interpolate

SpecShamir == InitShamir /\ [][NextShamir]_vars

----------------------------------------------------------------------------
(* A 120-byte secret whose slots are overwritten from outside one at a     *)
(* time                                                                    *)

\* the length of the secret
SecretLen == 120

\* 64 zero bytes
Zero == [Rand(0) EXCEPT !.t = "zero"]

\* the candidate slots of phash h that hold a copy or a share that reads
\* back
IntactSlots(f, h) ==
    { seg \in Segs : \/ seg \in ValidSegs(f, h)
                     \/ ShareIntact(f, h, seg, slot_len)
                     \/ ShareIntact(f, h, seg, slot_len * 2) }

\* a vault on a file of 2097152 bytes, opened with Shamir mode enabled
InitShare ==
    \E tst \in BOOLEAN :
        /\ Construct(2097152, TRUE, tst, "r+b", "A", 0)
        /\ file = BlankFile
        /\ written = {}

\* write_slot of a secret of SecretLen bytes
WriteSecret == WriteLen(SecretLen)

\* the first 64 bytes of the lowest or the highest intact slot are
\* overwritten with zeros by another program
ZeroSlot ==
    /\ pc = "open"
    /\ \E intact \in { IntactSlots(file, phash) } :
       \E seg \in intact :
          /\ \/ \A s \in intact : seg <= s
             \/ \A s \in intact : seg >= s
          /\ file' = [file EXCEPT !.cell[CellOf(get_offset(phash, seg))] = Zero]
    /\ lastop' = [NoOp EXCEPT !.op = "zero", !.e = clock]
    /\ UNCHANGED <<layoutVars, shamir_mode, testing, fmode, umode, phash, dirty,
                   clock, nwrites, pc, written, rd, shamir, tracker, aba, mouse>>

\* KeyLocker.read_slot() with the order of its replicated scan drawn
ScanSlots ==
    /\ pc = "open"
    /\ \E order \in ScanOrders :
       \E sc \in { replicated_scan(file, phash, order) } :
       \E rec \in { IF sc.found > 0 THEN [widths |-> <<>>, rets |-> { sc.ret }]
                    ELSE shamir_recovery(file, phash) } :
       \E ret \in rec.rets :
          lastop' = [op |-> "read_slot", status |-> "ok", ret |-> ret,
                     len |-> 0, e |-> clock, wlog |-> <<>>, reads |-> 1,
                     order |-> order, found |-> sc.found,
                     scanned |-> sc.scanned, warn |-> sc.warn,
                     widths |-> rec.widths]
    /\ UNCHANGED <<layoutVars, shamir_mode, testing, fmode, umode, phash, file, dirty,
                   clock, nwrites, pc, written, rd, shamir, tracker, aba, mouse>>

NextShare == WriteSecret \/ ZeroSlot \/ ScanSlots

SpecShare == InitShare /\ [][NextShare]_vars


----------------------------------------------------------------------------
(* bitfun.ByteTracker and KeyLocker.set_phash: the slices of phash         *)

\* ByteTracker.__init__
ByteTracker(hash_len, num) ==
    [NoTracker EXCEPT !.state = "ready", !.hash_len = hash_len,
                      !.num_slots = num]

\* ByteTracker.reserve: "if self.ptr + 1 >= self.hash_len: raise ValueError"
reserve_failsMut(ptr, hash_len) == ptr > hash_len

reserve_fails(ptr, hash_len) == ptr + 1 >= hash_len

\* ByteTracker.reserve(count, slots), slots = 0 for None ("if not slots").
\* self.ptr is assigned before the test that raises.
reserve(t, count, slots) ==
    LET n == IF slots = 0 THEN t.num_slots ELSE slots
        ptr == t.ptr + n * count
        sections == [i \in 1 .. n |-> [start |-> t.ptr + (i - 1) * count,
                                       stop |-> t.ptr + i * count]]
    IN  [t EXCEPT !.ptr = ptr,
                  !.calls = Append(@, [count |-> count, slots |-> n]),
                  !.sections = IF reserve_fails(ptr, t.hash_len)
                               THEN <<>> ELSE sections,
                  !.status = IF reserve_fails(ptr, t.hash_len)
                             THEN "ValueError" ELSE "ok"]

\* KeyLocker.set_phash: "ByteTracker(len(self.phash), self.slot_max+1)"
tracker_slotsMut(smax) == smax

tracker_slots(smax) == smax + 1

\* KeyLocker.set_phash on a phash of hash_len bytes: six reservations, the
\* first ValueError ends the call
set_phash(hash_len, smax) ==
    LET then(t, count, slots) ==
            IF t.status = "ValueError" THEN t ELSE reserve(t, count, slots)
        t1 == reserve(ByteTracker(hash_len, tracker_slots(smax)), 32, 1)
        t2 == then(t1, 32, 0)
        t3 == then(t2, 16, 1)
        t4 == then(t3, 16, 0)
        t5 == then(t4, 64 + 128, 1)
        t6 == then(t5, 16, 0)
    IN  [t6 EXCEPT !.state = "set",
                   !.slices = [shamir_key |-> t1.sections,
                               key |-> t2.sections,
                               shamir_vector |-> t3.sections,
                               vector |-> t4.sections,
                               prime |-> t5.sections,
                               offset |-> t6.sections]]

\* lengths of phash: Argon2's default buflen (8192) and the lengths around
\* what set_phash reserves with 9 and with 17 candidate slots
PhashLens == {8192} \cup Around(881) \cup Around(1393)

InitTracker ==
    \E fsize \in FileSizes :
        /\ Construct(fsize, TRUE, FALSE, "r+b", "A", 0)
        /\ file = BlankFile
        /\ written = {}

\* a ByteTracker is constructed
NewTracker ==
    /\ tracker.state = "none"
    /\ \E hash_len \in 1 .. MaxHashLen, num \in 1 .. 2 :
          tracker' = ByteTracker(hash_len, num)
    /\ UNCHANGED <<pc, layoutVars, shamir_mode, testing, fmode, umode, phash, file,
                   dirty, clock, nwrites, lastop, written, rd, shamir, aba, mouse>>

\* one call of ByteTracker.reserve
Reserve ==
    /\ tracker.state = "ready"
    /\ Len(tracker.calls) < MaxReserves
    /\ \E count \in 1 .. MaxCount, slots \in 0 .. 2 :
          tracker' = reserve(tracker, count, slots)
    /\ UNCHANGED <<pc, layoutVars, shamir_mode, testing, fmode, umode, phash, file,
                   dirty, clock, nwrites, lastop, written, rd, shamir, aba, mouse>>

\* KeyLocker.set_phash(phash) with the same password's hash in one of the
\* lengths a buflen setting gives it
TrackPhash ==
    /\ pc = "open"
    /\ tracker.state = "none"
    /\ \E hash_len \in PhashLens :
          tracker' = set_phash(hash_len, slot_max)
    /\ UNCHANGED <<pc, layoutVars, shamir_mode, testing, fmode, umode, phash, file,
                   dirty, clock, nwrites, lastop, written, rd, shamir, aba, mouse>>

NextTracker == NewTracker \/ Reserve \/ TrackPhash

SpecTracker == InitTracker /\ [][NextTracker]_vars


----------------------------------------------------------------------------
(* Writes on a vault in Shamir mode: the 2097152-byte file (17 candidate   *)
(* slots) and the 4128768-byte file (9 candidate slots), either phash,     *)
(* with and without testing                                                *)

InitWrites ==
    \E fsize \in {2097152, 4128768}, tst \in BOOLEAN, h \in PhashSet :
        /\ Construct(fsize, TRUE, tst, "r+b", h, 0)
        /\ file = BlankFile
        /\ written = {}

NextWrites == WriteSlot

SpecWrites == InitWrites /\ [][NextWrites]_vars


----------------------------------------------------------------------------
(* bitfun.ABA: the byte array with checksum, length byte and payload       *)

\* ABA.checksum on the payload d: sha512(d).digest()[:chk_len], taken as a
\* checksum no two payloads share
sha512(d) == <<"sha512", d>>

\* bytes of payloads and of random padding
PayloadBytes == {1, 2}
JunkBytes == {0, 127, 128, 255}

\* len(self.arr)
arr_len(a) == header + Len(a.body)

\* ABA.data(): the cached copy unless self.updated, otherwise a new copy of
\* arr[header:end], cached; the oldest of three cached copies is wiped and
\* dropped
ABA_data(a) ==
    IF ~ a.updated
    THEN [obj |-> a, ret |-> a.datas[Len(a.datas)]]
    ELSE LET target == SubSeq(a.body, 1, a.end - header)
             datas == Append(a.datas, target)
         IN  [obj |-> [a EXCEPT !.datas = IF Len(datas) >= 3 THEN Tail(datas)
                                          ELSE datas,
                                !.updated = FALSE],
              ret |-> target]

\* ABA.prepend: checksum and length byte written at the front of arr
ABA_prepend(a) ==
    LET d == ABA_data(a)
    IN  [d.obj EXCEPT !.chk = sha512(d.ret), !.lb = a.end - header]

\* ABA.read(src)
ABA_read(a, src) ==
    LET n == a.end - header
        body == [i \in 1 .. Len(a.body) |->
                    IF i > n /\ i <= n + Len(src) THEN src[i - n] ELSE a.body[i]]
        b == [a EXCEPT !.body = body, !.end = a.end + Len(src)]
    IN  [ABA_prepend(b) EXCEPT !.updated = TRUE]

\* ABA(src, size=size): a zeroed array of size bytes, or of the next
\* multiple of size that holds header and src, with src read in
ABA_init(src, size) ==
    LET sz == IF Len(src) + header > size
              THEN chunk_up(Len(src) + header, size) ELSE size
    IN  ABA_read([NoABA EXCEPT !.state = "new",
                               !.body = [i \in 1 .. (sz - header) |-> 0]],
                 src)

\* ABA(src, raw=True): the array is src as it is; end is the class
\* attribute (= start = header)
ABA_raw(chk, lb, body) ==
    [NoABA EXCEPT !.state = "raw", !.chk = chk, !.lb = lb, !.body = body]

\* ABA.validate: "Temporarily set self.end for self.checksum, then revert
\* if incorrect checksum"
ABA_validate(a) ==
    IF header + a.lb > arr_len(a)
    THEN [obj |-> a, ret |-> FALSE]
    ELSE LET d == ABA_data([a EXCEPT !.end = header + a.lb])
             status == sha512(d.ret) = a.chk
         IN  [obj |-> IF status THEN d.obj ELSE [d.obj EXCEPT !.end = a.end],
              ret |-> status]

\* the byte positions ABA.scramble overwrites: from self.end to the end
scrambledMut(a, i) == i >= a.end - header

scrambled(a, i) == i > a.end - header

\* ABA.scramble(src) with src at least as long as the padding: fill bytes
\* j and a last byte t
ABA_scramble(a, j, t) ==
    [a EXCEPT !.body = [i \in 1 .. Len(a.body) |->
                           IF ~ scrambled(a, i) THEN a.body[i]
                           ELSE IF i = Len(a.body) THEN t ELSE j]]

RECURSIVE SeqsOf(_, _)
\* the sequences of exactly n elements of S
SeqsOf(S, n) ==
    IF n = 0 THEN { <<>> }
    ELSE { Append(s, x) : s \in SeqsOf(S, n - 1), x \in S }

\* payloads of up to n bytes
BytesUpTo(n) == UNION { SeqsOf(PayloadBytes, k) : k \in 0 .. n }

\* payloads given to the constructor: short ones, and the 54 and 55 bytes
\* that leave one padding byte and none in a 64-byte array
Payloads ==
    (BytesUpTo(MaxPayload) \ { <<>> })
        \cup { [i \in 1 .. 54 |-> 1], [i \in 1 .. 55 |-> 1] }

InitABA ==
    /\ InitLayout
    /\ shamir_mode = TRUE

\* data = ABA(data, size=self.slot_len) of write_slot
NewABA ==
    /\ aba.state = "none"
    /\ \E src \in Payloads : aba' = ABA_init(src, slot_len)
    /\ lastop' = [NoOp EXCEPT !.op = "ABA"]
    /\ UNCHANGED <<pc, layoutVars, shamir_mode, testing, fmode, umode, phash, file,
                   dirty, clock, nwrites, written, rd, shamir, tracker, mouse>>

\* ABA(decrypt_data(...), raw=True) of read_slot, on whatever bytes the file
\* holds: a checksum field that is the checksum of some payload or of none,
\* any length byte, any bytes after it
NewRawABA ==
    /\ aba.state = "none"
    /\ \E chk \in { sha512(d) : d \in BytesUpTo(MaxRaw) } \cup { <<"junk">> },
          lb \in 0 .. (MaxRaw + 1), body \in BytesUpTo(MaxRaw) :
          aba' = ABA_raw(chk, lb, body)
    /\ lastop' = [NoOp EXCEPT !.op = "ABA"]
    /\ UNCHANGED <<pc, layoutVars, shamir_mode, testing, fmode, umode, phash, file,
                   dirty, clock, nwrites, written, rd, shamir, tracker, mouse>>

\* a call of data() or bytes()
Data ==
    /\ aba.state # "none"
    /\ aba' = ABA_data(aba).obj
    /\ lastop' = [NoOp EXCEPT !.op = "data", !.ret = ABA_data(aba).ret]
    /\ UNCHANGED <<pc, layoutVars, shamir_mode, testing, fmode, umode, phash, file,
                   dirty, clock, nwrites, written, rd, shamir, tracker, mouse>>

\* a call of validate()
Validate ==
    /\ aba.state # "none"
    /\ aba' = ABA_validate(aba).obj
    /\ lastop' = [NoOp EXCEPT !.op = "validate",
                              !.status = IF ABA_validate(aba).ret
                                         THEN "True" ELSE "False"]
    /\ UNCHANGED <<pc, layoutVars, shamir_mode, testing, fmode, umode, phash, file,
                   dirty, clock, nwrites, written, rd, shamir, tracker, mouse>>

\* a call of scramble()
Scramble ==
    /\ aba.state # "none"
    /\ \E j \in JunkBytes, t \in JunkBytes : aba' = ABA_scramble(aba, j, t)
    /\ lastop' = [NoOp EXCEPT !.op = "scramble"]
    /\ UNCHANGED <<pc, layoutVars, shamir_mode, testing, fmode, umode, phash, file,
                   dirty, clock, nwrites, written, rd, shamir, tracker, mouse>>

\* crypto.get_prime(data_len): a prime of data_len * 8 bits, kept as its
\* highest byte (128 or more) and one value for the bytes below it
PrimeBytes == [top : {128, 255}, fill : {0, 255}]

\* "from_bytes(data.arr) >= prime" in little-endian order, decided from the
\* last byte of arr downwards; equal down to the length byte, the checksum
\* bytes decide and either answer is possible.  The set of answers of
\* "from_bytes(data.arr) < prime".
RECURSIVE below_from(_, _, _)
below_from(a, p, i) ==
    LET b == IF i = 0 THEN a.lb ELSE a.body[i]
        q == IF i = Len(a.body) THEN p.top ELSE p.fill
    IN  IF b < q THEN { TRUE }
        ELSE IF b > q THEN { FALSE }
        ELSE IF i = 0 THEN BOOLEAN
        ELSE below_from(a, p, i - 1)

below_prime(a, p) == below_from(a, p, Len(a.body))

\* write_shamir: "if not data.end % 64: data.arr += b'0'*64; data.prepend()"
extended(a) ==
    IF a.end % 64 = 0
    THEN ABA_prepend([a EXCEPT !.body = a.body \o [i \in 1 .. 64 |-> 48]])
    ELSE a

\* write_shamir up to share generation: the array is extended when the
\* payload ends on a multiple of 64 and scrambled until its integer is below
\* the prime; error() when none of the tries is
PadBelowPrime ==
    /\ aba.state = "new"
    /\ \E p \in PrimeBytes, j \in JunkBytes, t \in JunkBytes :
       \E a \in { ABA_scramble(extended(aba), j, t) } :
          \/ /\ TRUE \in below_prime(a, p)
             /\ aba' = [a EXCEPT !.state = "padded"]
             /\ lastop' = [NoOp EXCEPT !.op = "pad", !.status = "ok", !.ret = p]
             /\ pc' = pc
          \/ /\ FALSE \in below_prime(a, p)
             /\ aba' = [a EXCEPT !.state = "padded"]
             /\ lastop' = [NoOp EXCEPT !.op = "pad", !.status = error, !.ret = p]
             /\ pc' = error
    /\ UNCHANGED <<layoutVars, shamir_mode, testing, fmode, umode, phash, file,
                   dirty, clock, nwrites, written, rd, shamir, tracker, mouse>>

NextABA == NewABA \/ NewRawABA \/ Data \/ Validate \/ Scramble \/ PadBelowPrime

SpecABA == InitABA /\ [][NextABA]_vars


----------------------------------------------------------------------------
(* Recovery of Shamir shares: a vault of 4128768 bytes, written once,     *)
(* whose copies and shares are damaged one at a time between reads         *)

\* payloads stored as 64-byte shares, as 128-byte shares and as replicated
\* copies
RecoverLens == {54, 55, 240}

InitRecover ==
    /\ Construct(4128768, TRUE, FALSE, "r+b", "A", 0)
    /\ file = BlankFile
    /\ written = {}

\* the first write_slot on the file, of one of the payloads
WriteShares ==
    /\ nwrites = 0
    /\ \E n \in RecoverLens : WriteLen(n)

NextRecover == WriteShares \/ ZeroSlot \/ ScanSlots

SpecRecover == InitRecover /\ [][NextRecover]_vars


----------------------------------------------------------------------------
(* One pass of KeyLocker.read_shamir over shamir.get_combos                *)

RECURSIVE combinations(_, _)
\* itertools.combinations(sample, r), each combination as the set
\* sorted(combo) lists: the r-subsets of sample in the order of the
\* positions of their elements
combinations(sample, r) ==
    IF r = 0 THEN << {} >>
    ELSE IF Len(sample) < r THEN <<>>
    ELSE LET with == combinations(Tail(sample), r - 1)
         IN  [i \in 1 .. Len(with) |-> with[i] \cup { sample[1] }]
                 \o combinations(Tail(sample), r)

\* get_combos: "for minimum in range(1, maximum+1)"
combo_sizesMut(maximum) == [i \in 1 .. maximum |-> maximum + 1 - i]

combo_sizes(maximum) == [i \in 1 .. maximum |-> i]

\* shamir.get_combos(share_c, maximum) when rand.shuffle leaves sample in
\* the given order: the combinations it yields, in order
combo_order(sample, maximum) ==
    LET sizes == combo_sizes(maximum)
        from[i \in 1 .. (maximum + 1)] ==
            IF i = maximum + 1 THEN <<>>
            ELSE combinations(sample, sizes[i]) \o from[i + 1]
    IN  from[1]

\* the orders of sample explored, out of those rand.shuffle can give:
\* ascending and descending
Samples(share_c) ==
    { [i \in 1 .. share_c |-> i], [i \in 1 .. share_c |-> share_c + 1 - i] }

\* the number of combinations one pass of read_shamir interpolates: it
\* leaves the loop at the second result that validates, or after
\* combination number giveup + 1 when giveup is set, or at the end.  A
\* combination validates when all its shares are intact shares of one
\* write and there are at least k of them.
read_shamir_tries(combos, intact, k, giveup) ==
    LET valid == { i \in 1 .. Len(combos) :
                     combos[i] \subseteq intact /\ Cardinality(combos[i]) >= k }
        first == CHOOSE i \in valid : \A j \in valid : i <= j
        rest == valid \ { first }
        second == CHOOSE i \in rest : \A j \in rest : i <= j
        stop == IF Cardinality(valid) >= 2 THEN second ELSE Len(combos)
    IN  IF giveup > 0 THEN Min(stop, giveup + 1) ELSE stop

InitCombos ==
    \E fsize \in {2097152, 4128768} :
        /\ Construct(fsize, TRUE, FALSE, "r+b", "A", 0)
        /\ file = BlankFile
        /\ written = {}

\* one call of read_shamir(prime, shares, giveup) on slot_max shares of
\* which the first or the last m are intact shares with threshold k.  A
\* pass keeps nothing from the passes before it: one pass is followed.
ReadShamirPass ==
    /\ pc = "open"
    /\ lastop.op = "none"
    /\ \E sample \in Samples(slot_max) :
       \E combos \in { combo_order(sample, max_reqs) } :
       \E m \in 0 .. slot_max, k \in 2 .. max_reqs, giveup \in {0, 99} :
       \E intact \in { 1 .. m, (slot_max + 1 - m) .. slot_max } :
          lastop' = [op |-> "read_shamir", status |-> "ok", ret |-> Empty,
                     len |-> 0, e |-> clock, wlog |-> <<>>, reads |-> 0,
                     intact |-> intact, k |-> k, giveup |-> giveup,
                     combos |-> SubSeq(combos, 1,
                                       read_shamir_tries(combos, intact, k, giveup))]
    /\ UNCHANGED <<pc, layoutVars, shamir_mode, testing, fmode, umode, phash, file,
                   dirty, clock, nwrites, written, rd, shamir, tracker, aba, mouse>>

NextCombos == ReadShamirPass

SpecCombos == InitCombos /\ [][NextCombos]_vars


----------------------------------------------------------------------------
(* sd/hash_mouse.py: the watcher process publishes (count, digest, check)  *)
(* in a shared array of 80 bytes and HashMouse.check_shared reads it.  The  *)
(* array is an mp.Array with its lock: each slice read and each slice write *)
(* is one step.                                                            *)

\* hash8(d0 + d1), taken as a checksum no two inputs share
hash8Mut(d0, d1) == <<"hash8">>

hash8(d0, d1) == <<"hash8", d0, d1>>

\* int.from_bytes(d0, 'big') of bytes 0..7 of mp.Array('c', range(80)) is
\* 283686952306183: kept as a count above every count the watcher reaches
InitCount == 2147483647

\* len(history) in watcher
history_len == 16

\* HashMouse.__init__(min_dots=min_dots): the reader starts with count 0 and
\* a random hash, the array holds the bytes 0..79, the watcher has sampled
\* nothing.  published is the set of (count, digest) pairs update_hash has
\* written so far.
HashMouse(min_dots) ==
    [state |-> "idle",
     shared |-> [d0 |-> InitCount, d1 |-> <<"range">>, d2 |-> <<"range">>],
     wcount |-> 0, index |-> 0, min_dots |-> min_dots,
     count |-> 0, hash |-> <<"urandom">>,
     d0 |-> 0, d1 |-> <<>>, d2 |-> <<>>, ret |-> FALSE,
     published |-> {}]

InitMouse ==
    /\ InitLayout
    /\ shamir_mode = TRUE

\* HashMouse(min_dots=...)
NewMouse ==
    /\ mouse.state = "none"
    /\ \E min_dots \in {2, 64} : mouse' = HashMouse(min_dots)
    /\ UNCHANGED <<pc, layoutVars, shamir_mode, testing, fmode, umode, phash, file,
                   dirty, clock, nwrites, lastop, written, rd, shamir, tracker, aba>>

\* one pass of the watcher's loop with a new mouse position: count += 1,
\* then update_hash() and index = 0 when the history is full or while
\* count <= min_dots, index += 1 otherwise.  update_hash writes count, the
\* digest (new at every update: os.urandom goes into it) and their hash8
\* in one slice assignment.
WatcherSample ==
    /\ mouse.state # "none"
    /\ mouse.wcount < MaxMoves
    /\ LET count == mouse.wcount + 1
           d1 == <<"digest", count>>
       IN  IF \/ mouse.index = history_len - 1
              \/ (count <= mouse.min_dots /\ mouse.index = 0)
           THEN mouse' = [mouse EXCEPT
                            !.wcount = count, !.index = 0,
                            !.shared = [d0 |-> count, d1 |-> d1,
                                        d2 |-> hash8(count, d1)],
                            !.published = @ \cup { [count |-> count, digest |-> d1] }]
           ELSE mouse' = [mouse EXCEPT !.wcount = count, !.index = @ + 1]
    /\ UNCHANGED <<pc, layoutVars, shamir_mode, testing, fmode, umode, phash, file,
                   dirty, clock, nwrites, lastop, written, rd, shamir, tracker, aba>>

\* check_shared: "d0 = data[0:8]"
ReadD0 ==
    /\ mouse.state = "idle"
    /\ mouse' = [mouse EXCEPT !.state = "d0", !.d0 = mouse.shared.d0]
    /\ UNCHANGED <<pc, layoutVars, shamir_mode, testing, fmode, umode, phash, file,
                   dirty, clock, nwrites, lastop, written, rd, shamir, tracker, aba>>

\* check_shared: "d1 = data[8:72]"
ReadD1 ==
    /\ mouse.state = "d0"
    /\ mouse' = [mouse EXCEPT !.state = "d1", !.d1 = mouse.shared.d1]
    /\ UNCHANGED <<pc, layoutVars, shamir_mode, testing, fmode, umode, phash, file,
                   dirty, clock, nwrites, lastop, written, rd, shamir, tracker, aba>>

\* check_shared: "d2 = data[72:80]"
ReadD2 ==
    /\ mouse.state = "d1"
    /\ mouse' = [mouse EXCEPT !.state = "d2", !.d2 = mouse.shared.d2]
    /\ UNCHANGED <<pc, layoutVars, shamir_mode, testing, fmode, umode, phash, file,
                   dirty, clock, nwrites, lastop, written, rd, shamir, tracker, aba>>

\* check_shared from "if hash8(d0 + d1) != d2" to its return
CheckShared ==
    /\ mouse.state = "d2"
    /\ mouse' =
          IF hash8(mouse.d0, mouse.d1) # mouse.d2
          THEN [mouse EXCEPT !.state = "idle", !.ret = FALSE]
          ELSE IF mouse.d0 > mouse.count
          THEN [mouse EXCEPT !.state = "idle", !.ret = TRUE,
                             !.count = mouse.d0, !.hash = mouse.d1]
          ELSE [mouse EXCEPT !.state = "idle", !.ret = FALSE]
    /\ UNCHANGED <<pc, layoutVars, shamir_mode, testing, fmode, umode, phash, file,
                   dirty, clock, nwrites, lastop, written, rd, shamir, tracker, aba>>

NextMouse == NewMouse \/ WatcherSample \/ ReadD0 \/ ReadD1 \/ ReadD2 \/ CheckShared

SpecMouse == InitMouse /\ [][NextMouse]_vars

----------------------------------------------------------------------------
(* Properties                                                              *)

\* every payload the file still yields under phash h: a candidate slot that
\* validates, or a combination of shares of either width that does
Recoverable(f, h) ==
    { Payload(ReadCells(f, get_offset(h, seg), 1)[1].e,
              ReadCells(f, get_offset(h, seg), 1)[1].len) : seg \in ValidSegs(f, h) }
    \cup read_shamir(f, h, slot_len) \cup read_shamir(f, h, slot_len * 2)

\* the payload of the write_slot call recorded in lastop
Written == Payload(lastop.e, lastop.len)

WroteOk == lastop.op = "write_slot" /\ lastop.status = "ok"

C2_NoGhost ==
    WroteOk => Recoverable(file, phash) = { Written }

\* a second write has returned
C2_Witness ==
    WroteOk /\ nwrites >= 2 /\ lastop.e >= 2 /\ Recoverable(file, phash) = { Written }

\* C3: under a phash with which nothing was written to the file, no
\* replicated candidate validates, no combination of shares of width 64 or
\* 128 validates, and read_slot returns the empty bytearray
C3_WrongPhashEmpty ==
    \A h \in PhashSet \ written :
        /\ ValidSegs(file, h) = {}
        /\ read_shamir(file, h, slot_len) = {}
        /\ read_shamir(file, h, slot_len * 2) = {}
        /\ read_slot(file, h) = { Empty }

\* read_slot has returned empty under a phash that wrote nothing, on a file
\* that holds a secret written under another phash
C3_Witness ==
    /\ lastop.op = "read_slot" /\ lastop.ret = Empty
    /\ phash \notin written /\ written # {}
    /\ \E h \in written : read_slot(file, h) # { Empty }

\* C4: read_slot leaves every byte of the file as it was, under any phash,
\* whether it returns data or empty
C4_ReadKeepsFile ==
    [][lastop'.op = "read_slot" => file' = file]_vars

\* read_slot has returned data
C4_Witness ==
    lastop.op = "read_slot" /\ lastop.ret # Empty /\ written # {}

\* C6: after wipe() on a writable file that held a secret written with a
\* phash, read_slot with that phash returns empty
C6_WipeThenEmpty ==
    (lastop.op = "wipe" /\ fmode = "r+b") =>
        \A h \in written : read_slot(file, h) = { Empty }

\* a writable file that held a secret has been wiped
C6_Witness ==
    lastop.op = "wipe" /\ fmode = "r+b" /\ phash \in written /\ nwrites >= 1

\* C7: wipe() overwrites [0, S+A) and [F-S, F), in three passes, and leaves
\* the storage tail [S+A, F-S) as it was; on a handle that is not writable
\* it changes nothing
C7_WipeFrame ==
    [][lastop'.op = "wipe" =>
         IF fmode = "r+b"
         THEN LET a == <<0, salt_len + area>>
                  b == <<filesize - salt_len, filesize>>
              IN  /\ lastop'.wlog = <<a, b, a, b, a, b>>
                  /\ file'.storage = file.storage
                  /\ file'.head = clock' /\ file'.tail = clock'
                  /\ file'.rest = clock'
                  /\ \A c \in DOMAIN file'.cell : file'.cell[c] = Rand(clock')
         ELSE file' = file /\ lastop'.wlog = <<>>]_vars

\* a file with a storage tail and a secret has been wiped
C7_Witness ==
    /\ lastop.op = "wipe" /\ fmode = "r+b" /\ storage > 0 /\ nwrites >= 1
    /\ file.head = clock /\ file.storage = 0

\* C8: every byte written by write_slot (scrub, replicated copies, shares)
\* lies inside the slot area [S, S+A); the head salt, the tail salt and the
\* storage tail are as they were before the call
C8_WritesInArea ==
    [][lastop'.op = "write_slot" =>
         /\ \A i \in 1 .. Len(lastop'.wlog) :
               /\ lastop'.wlog[i][1] >= salt_len
               /\ lastop'.wlog[i][2] <= salt_len + area
         /\ file'.head = file.head
         /\ file'.tail = file.tail
         /\ file'.storage = file.storage]_vars

\* a 256-byte buffer has been written on the last slot of the area
C8_Witness ==
    /\ WroteOk
    /\ \E i \in 1 .. Len(lastop.wlog) :
          /\ lastop.wlog[i][1] = salt_len + (num_slots - 1) * slot_len
          /\ lastop.wlog[i][2] = lastop.wlog[i][1] + max_len
    /\ file.head = 0 /\ file.tail = 0 /\ file.storage = 0

\* C9: a write_slot call that returns has flushed the file and read back a
\* non-empty validated payload; when the read-back is empty the call ends
\* in a fatal error
C9_FlushVerify ==
    lastop.op = "write_slot" =>
        /\ pc = "open" => /\ ~ dirty
                          /\ lastop.ret # Empty
                          /\ lastop.ret \in read_slot(file, phash)
        /\ (lastop.wlog # <<>> /\ Empty \in read_slot(file, phash)) => pc = "fatal"

\* a write whose read-back was empty has ended in the fatal error
C9_Witness ==
    /\ lastop.op = "write_slot" /\ lastop.status = "verify_failed"
    /\ pc = "fatal" /\ ~ dirty /\ read_slot(file, phash) = { Empty }

\* C5: with password_tries = n, read_datafile calls wipe only when
\* wipe_on_max_tries is on, exactly once, right after the (n+1)-th failed
\* attempt in a row and not before; it calls no wipe when an attempt returns
\* data; after the last failed attempt it ends in the fatal error
C5_WipeOnMaxTries ==
    /\ rd.wipes <= 1
    /\ rd.wipes = 1 => rd.wipe /\ rd.state = "error" /\ rd.tri = rd.tries + 1
    /\ rd.state = "loop" => rd.wipes = 0 /\ rd.tri <= rd.tries
    /\ rd.state = "returned" =>
          /\ rd.wipes = 0
          /\ pc # "fatal"
          /\ lastop.op = "read_datafile" => lastop.ret # Empty
    /\ rd.state = "error" =>
          /\ pc = "fatal"
          /\ lastop.ret = Empty
          /\ rd.tri = rd.tries + 1
          /\ rd.wipes = (IF rd.wipe THEN 1 ELSE 0)

\* with two tries allowed, the third failed attempt has wiped a writable
\* file that held a secret
C5_Witness ==
    /\ rd.state = "error" /\ rd.wipes = 1 /\ rd.tries = 2 /\ rd.tri = 3
    /\ fmode = "r+b" /\ lastop.wlog # <<>>
    /\ \A h \in PhashSet : read_slot(file, h) = { Empty }

\* the area with the middle case starting at max_area / 5 as a real number
ClaimedArea(notsalt) ==
    IF notsalt >= 2 * max_area THEN max_area
    ELSE IF 5 * notsalt >= max_area THEN notsalt \div 2
    ELSE notsalt

\* C10 as stated: for every accepted file size F, S, A, T >= 0 and
\* F = 2S + A + T, where A = 1 MiB if F-2S >= 2 MiB, A = (F-2S)//2 if
\* F-2S >= max_area/5, and otherwise A = F-2S with Shamir mode disabled;
\* the result depends on F only
C10_AsStated ==
    pc = "open" =>
        LET notsalt == filesize - 2 * salt_len
        IN  /\ salt_len = calc_salt_size(filesize)
            /\ salt_len >= 0 /\ area >= 0 /\ storage >= 0
            /\ filesize = 2 * salt_len + area + storage
            /\ area = ClaimedArea(notsalt)
            /\ (notsalt < 2 * max_area /\ 5 * notsalt < max_area) => ~ shamir_mode

\* C10 amended: the middle case starts at F-2S >= max_area // 5 = 209715
\* (integer division): for every accepted file size F, S, A, T >= 0 and
\* F = 2S + A + T, where A = 1 MiB if F-2S >= 2 MiB, A = (F-2S)//2 if
\* 209715 <= F-2S < 2 MiB, and otherwise A = F-2S with Shamir mode disabled;
\* the result depends on F only
C10_Boundaries ==
    pc = "open" =>
        LET notsalt == filesize - 2 * salt_len
        IN  /\ salt_len = calc_salt_size(filesize)
            /\ salt_len >= 0 /\ area >= 0 /\ storage >= 0
            /\ filesize = 2 * salt_len + area + storage
            /\ area = (IF notsalt >= 2097152 THEN 1048576
                       ELSE IF notsalt >= 209715 THEN notsalt \div 2
                       ELSE notsalt)
            /\ notsalt < 209715 => ~ shamir_mode

\* a file of 218831 bytes is open: F-2S = 209715, the area is half of it
C10_Witness ==
    /\ pc = "open" /\ filesize - 2 * salt_len = 209715
    /\ area = 104857 /\ storage = 104858 /\ shamir_mode

\* C11: opening a vault ends in the configuration error whenever the layout
\* has fewer than 10 slots, so every vault that opens has num_slots >= 10 and
\* num_slots * 64 + 192 <= area.
C11_MinSlots ==
    /\ (lastop.op = "open" /\ num_slots < 10) => pc = error
    /\ pc = "open" => /\ num_slots >= 10
                      /\ num_slots * 64 + 192 <= area

\* the largest file that is refused (9 slots) has been opened
C11_Witness == lastop.op = "open" /\ num_slots = 9 /\ pc = error

\* C12 as stated: every layout with num_slots < 10 or area < max_area / 5
\* opens with Shamir mode disabled and round-trips a replicated write
C12_AsStated ==
    (num_slots < 10 \/ 5 * area < max_area) =>
        /\ pc # error
        /\ ~ shamir_mode
        /\ WroteOk => read_slot(file, phash) = { Written }

\* C12: in every opened vault whose file has fewer than max_area // 5 bytes
\* outside its salts (so that the area is all of them), Shamir mode is
\* disabled, and a write_slot that returns has written replicated copies
\* that read_slot returns
C12_SmallLayout ==
    (pc \in {"open", "closed"} /\ filesize - 2 * salt_len < max_area \div 5) =>
        /\ area = filesize - 2 * salt_len
        /\ ~ shamir_mode
        /\ WroteOk => /\ read_slot(file, phash) = { Written }
                      /\ ValidSegs(file, phash) # {}

\* a vault on a 20000-byte file round-trips a replicated write
C12_Witness ==
    /\ filesize = 20000 /\ WroteOk /\ ~ shamir_mode
    /\ lastop.len = 55
    /\ ValidSegs(file, phash) # {}
    /\ read_slot(file, phash) = { Written }

\* a step that is a call of write_slot
WriteStep == lastop'.op = "write_slot" /\ clock' = clock + 1

\* C13 as stated: a payload of more than 255 bytes, or of more than 119
\* bytes when Shamir mode is on, makes write_slot fail before any read or
\* write on the file
C13_AsStated ==
    [][(WriteStep /\ (lastop'.len > 255 \/ (shamir_mode /\ lastop'.len > 119)))
       => /\ lastop'.status # "ok"
          /\ lastop'.reads = 0
          /\ lastop'.wlog = <<>>
          /\ file' = file]_vars

\* C13: a payload of more than 247 bytes makes write_slot fail in the VBA
\* constructor before any read or write on the file; with Shamir mode on, a
\* payload of 119 to 247 bytes does not fail but turns Shamir mode off and
\* is written as replicated copies
C13_Oversize ==
    [][WriteStep =>
        /\ lastop'.len > 247 =>
              /\ lastop'.status = "ValueError"
              /\ pc' = "fatal"
              /\ lastop'.reads = 0
              /\ lastop'.wlog = <<>>
              /\ file' = file
        /\ (shamir_mode /\ lastop'.len \in 119 .. 247 /\ fmode = "r+b") =>
              /\ ~ shamir_mode'
              /\ lastop'.status = "ok"
              /\ ValidSegs(file', phash) # {}]_vars

\* write_slot was given 256 bytes and raised before touching the file
C13_Witness ==
    /\ lastop.op = "write_slot" /\ lastop.len = 256
    /\ lastop.status = "ValueError" /\ pc = "fatal"
    /\ lastop.reads = 0 /\ lastop.wlog = <<>>

\* C14: Lagrange interpolation over the prime field on any k or more
\* distinct unmodified shares of a threshold-k share set returns the secret,
\* whatever coefficients make_shares drew
C14_Interpolate ==
    (shamir.state = "combined" /\ Cardinality(shamir.combo) >= shamir.minimum)
        => shamir.result = shamir.secret

\* three shares of a threshold-3 set whose first share is not the secret
\* interpolate to the secret
C14_Witness ==
    /\ shamir.state = "combined"
    /\ shamir.minimum = 3
    /\ Cardinality(shamir.combo) = 3
    /\ shamir.values[1] # shamir.secret
    /\ shamir.result = shamir.secret

\* the 120-byte secret of the first write, made with Shamir mode enabled
FirstSecret == Payload(1, SecretLen)

\* C15 as stated: the 120-byte secret written with Shamir mode enabled is
\* read back, and read_slot does not return it when fewer than 3 of the
\* written slots are intact
C15_AsStated ==
    /\ (WroteOk /\ lastop.e = 1) => read_slot(file, phash) = { FirstSecret }
    /\ FirstSecret \in read_slot(file, phash) =>
           Cardinality(IntactSlots(file, phash)) >= 3

\* C15: a 120-byte secret given to write_slot with Shamir mode enabled is
\* read back identical, and it is written as replicated copies with Shamir
\* mode turned off, so read_slot returns it exactly as long as one written
\* copy is intact
C15_Reverted ==
    /\ (WroteOk /\ lastop.e = 1) =>
           /\ ~ shamir_mode
           /\ read_slot(file, phash) = { FirstSecret }
    /\ \A c \in DOMAIN file.cell : file.cell[c].e = 1 => file.cell[c].t # "share"
    /\ FirstSecret \in read_slot(file, phash) <=>
           \E seg \in ValidSegs(file, phash) :
               ReadCells(file, get_offset(phash, seg), 1)[1].e = 1

\* all written copies of the secret but one have been zeroed and read_slot
\* has returned it
C15_Witness ==
    /\ lastop.op = "read_slot" /\ lastop.ret = FirstSecret
    /\ Cardinality(IntactSlots(file, phash)) = 1
    /\ \E c \in DOMAIN file.cell : file.cell[c].t = "zero"

\* C16: get_slot_count returns an integer from 1 to slot_max whatever it
\* draws, so the activation vector of a write has at least one and at most
\* slot_max candidate slots set
C16_SlotCount ==
    lastop.op = "get_slot_count" =>
        /\ lastop.len \in 1 .. slot_max
        /\ \A V \in Activations(lastop.len) :
              /\ V \subseteq Segs
              /\ Cardinality(V) = lastop.len

\* the log-normal branch has returned slot_max itself
C16_Witness ==
    /\ lastop.op = "get_slot_count"
    /\ lastop.len = slot_max
    /\ slot_max = 17

\* C17 as stated: on a file of 2097152 bytes a replicated write leaves at
\* least 1 and at most 9 active slots
C17_AsStated ==
    (filesize = 2097152 /\ WroteOk /\ ~ shamir_mode) =>
        Cardinality(ValidSegs(file, phash)) \in 1 .. 9

\* C17: on a file of 2097152 bytes the area is below 1 MiB, the slot target
\* is 8, and a replicated write leaves at least 1 and at most 17 active
\* slots
C17_ActiveSlots ==
    (filesize = 2097152 /\ pc # error) =>
        /\ area < 1024 * 1024
        /\ slot_max = 17
        /\ (WroteOk /\ ~ shamir_mode) =>
               Cardinality(ValidSegs(file, phash)) \in 1 .. 17

\* a replicated write on the 2097152-byte file has left 17 active slots
C17_Witness ==
    /\ filesize = 2097152 /\ WroteOk /\ ~ shamir_mode
    /\ Cardinality(ValidSegs(file, phash)) = 17

\* C19: every run that constructs a vault and ends in a fatal error has
\* called close() on it: the phash is wiped and nothing is left unflushed
C19_ClosedOnExit ==
    pc = "fatal" => (phash = "wiped" /\ ~ dirty)

\* the positions in the scan order of lastop whose candidate validates
ValidPositions ==
    { i \in 1 .. slot_max :
        \E seg \in { lastop.order[i] } :
        \E cells \in { ReadCells(file, get_offset(phash, seg), max_len \div slot_len) } :
            validate(cells, get_key(phash, seg)) }

\* the k-th smallest member of a set of positions
RECURSIVE KthOf(_, _)
KthOf(S, k) ==
    LET m == CHOOSE x \in S : \A y \in S : x <= y
    IN  IF k = 1 THEN m ELSE KthOf(S \ {m}, k - 1)

\* what C20 says of the value returned and of the end of the scan
ScanReturnsFirst ==
    /\ ValidPositions # {} =>
          LET seg == lastop.order[KthOf(ValidPositions, 1)]
              c == ReadCells(file, get_offset(phash, seg), 1)[1]
          IN  lastop.ret = Payload(c.e, c.len)
    /\ lastop.scanned = IF Cardinality(ValidPositions) >= 2
                        THEN KthOf(ValidPositions, 2) ELSE slot_max

\* C20 as stated: the replicated scan returns the payload of the first
\* candidate that validates, stops at the second one that validates, and
\* raises the warning exactly when one candidate validates
C20_AsStated ==
    lastop.op = "read_slot" =>
        /\ ScanReturnsFirst
        /\ lastop.warn <=> Cardinality(ValidPositions) = 1

\* C20: the replicated scan returns the payload of the first candidate that
\* validates, stops at the second one that validates, and raises the
\* warning exactly when one candidate validates and the vault is not in
\* testing mode
C20_Scan ==
    lastop.op = "read_slot" =>
        /\ ScanReturnsFirst
        /\ lastop.warn <=> (Cardinality(ValidPositions) = 1 /\ ~ testing)

\* with all copies but two zeroed, a scan whose first candidate does not
\* validate has returned the payload of the first valid candidate it met
\* and stopped at the second one, before the end of its order
C20_Witness ==
    /\ lastop.op = "read_slot"
    /\ Cardinality(ValidPositions) = 2
    /\ lastop.found = 2
    /\ lastop.scanned = KthOf(ValidPositions, 2)
    /\ lastop.scanned < slot_max
    /\ KthOf(ValidPositions, 1) > 1
    /\ lastop.ret = FirstSecret
    /\ ~ lastop.warn


\* the slices of a successful set_phash in the order they were reserved
AllSlices ==
    tracker.slices.shamir_key \o tracker.slices.key
        \o tracker.slices.shamir_vector \o tracker.slices.vector
        \o tracker.slices.prime \o tracker.slices.offset

\* the table of slices with N keys, N vectors and N offsets: the lengths in
\* order, each slice starting where the one before it stops, from byte 0,
\* and the last one inside the phash
SliceTable(N) ==
    LET s == tracker.slices
        all == AllSlices
    IN  /\ Len(s.shamir_key) = 1 /\ Len(s.key) = N
        /\ Len(s.shamir_vector) = 1 /\ Len(s.vector) = N
        /\ Len(s.prime) = 1 /\ Len(s.offset) = N
        /\ s.shamir_key[1].stop - s.shamir_key[1].start = 32
        /\ \A i \in 1 .. N : s.key[i].stop - s.key[i].start = 32
        /\ s.shamir_vector[1].stop - s.shamir_vector[1].start = 16
        /\ \A i \in 1 .. N : s.vector[i].stop - s.vector[i].start = 16
        /\ s.prime[1].stop - s.prime[1].start = 192
        /\ \A i \in 1 .. N : s.offset[i].stop - s.offset[i].start = 16
        /\ all[1].start = 0
        /\ \A i \in 1 .. (Len(all) - 1) : all[i + 1].start = all[i].stop
        /\ \A i, j \in 1 .. Len(all) :
              i < j => all[i].stop <= all[j].start
        /\ all[Len(all)].stop < tracker.hash_len

TrackedOk == tracker.state = "set" /\ tracker.status = "ok"

\* C21 as stated: N = slot_max slices per family
C21_AsStated == TrackedOk => SliceTable(slot_max)

\* C21 (amended): a set_phash that succeeds has reserved, in this order,
\* shamir_key (32), key[0..N-1] (32 each), shamir_vector (16),
\* vector[0..N-1] (16 each), prime (192) and offset[0..N-1] (16 each) with
\* N = slot_max + 1; the slices are contiguous from byte 0, pairwise
\* disjoint and end before the last byte of phash.
C21_Slices == TrackedOk => SliceTable(slot_max + 1)

\* 17 candidate slots, the shortest phash set_phash accepts: 1394 bytes, the
\* last offset slice stops at byte 1392
C21_Witness ==
    /\ TrackedOk
    /\ slot_max = 17
    /\ tracker.hash_len = 1394
    /\ Len(tracker.slices.offset) = 18
    /\ tracker.slices.offset[18].stop = 1392
    /\ tracker.slices.shamir_vector[1].start = 32 + 32 * 18

RECURSIVE Reserved(_)
\* bytes asked for by a sequence of reserve calls
Reserved(calls) ==
    IF calls = <<>> THEN 0
    ELSE calls[1].count * calls[1].slots + Reserved(Tail(calls))

ShamirWrite ==
    /\ lastop.op = "write_slot"
    /\ shamir_mode
    /\ lastop.status \in {"ok", "verify_failed"}

\* the byte ranges write_shamir wrote in the last write_slot: what follows
\* the slot_max ranges of the scrub, when there was one
ShareRanges ==
    IF Len(lastop.wlog) > slot_max
    THEN SubSeq(lastop.wlog, slot_max + 1, Len(lastop.wlog))
    ELSE lastop.wlog

\* C23: the shares written by a Shamir write are all data_len bytes wide and
\* start at least data_len bytes from each other; a write that ends with
\* "Cannot find a valid slot configuration" has written no share.
C23_SharesApart ==
    /\ ShamirWrite =>
          \A i, j \in 1 .. Len(ShareRanges) :
             /\ ShareRanges[i][2] - ShareRanges[i][1] = shamir_data_len(lastop.len)
             /\ i # j =>
                   \/ ShareRanges[i][1] - ShareRanges[j][1] >= shamir_data_len(lastop.len)
                   \/ ShareRanges[j][1] - ShareRanges[i][1] >= shamir_data_len(lastop.len)
    /\ (lastop.op = "write_slot" /\ lastop.status = "no_config") =>
          /\ pc = error
          /\ Len(lastop.wlog) \in {0, slot_max}
          /\ \A c \in DOMAIN file.cell :
                ~ (file.cell[c].t = "share" /\ file.cell[c].e = lastop.e)

\* phash "B", whose candidates 1 and 2 share an offset: four 64-byte shares
\* written, none on the same offset as another
C23_Witness ==
    /\ ShamirWrite
    /\ phash = "B"
    /\ lastop.status = "ok"
    /\ shamir_data_len(lastop.len) = 64
    /\ Len(ShareRanges) = 4
    /\ get_offset("B", 1) = get_offset("B", 2)

\* phash "B" and 128-byte shares: no four candidates are 128 bytes apart and
\* the write fails
C23_WitnessFail ==
    /\ lastop.op = "write_slot"
    /\ lastop.status = "no_config"
    /\ phash = "B"


\* the candidate slots that hold a whole share written by the last write
FreshShares ==
    { seg \in Segs :
        /\ ShareIntact(file, phash, seg, shamir_data_len(lastop.len))
        /\ ShareOf(file, phash, seg).e = lastop.e }

\* C24: a Shamir write uses a threshold k with 2 <= k <= max_reqs = 4 and
\* writes n shares with k <= n <= slot_max, whatever get_slot_count draws;
\* after the write at least k whole shares of it are in the file.
C24_Threshold ==
    /\ pc = "open" =>
          \A c1, c2 \in get_slot_count :
             /\ minimum_of(c1) \in 2 .. max_reqs
             /\ valid_count_of(c2, minimum_of(c1)) \in minimum_of(c1) .. slot_max
    /\ ShamirWrite =>
          \E k \in 2 .. max_reqs :
             /\ \A seg \in FreshShares : ShareOf(file, phash, seg).k = k
             /\ Len(ShareRanges) \in k .. slot_max
             /\ Cardinality(FreshShares) >= k

\* a write with threshold 4 that wrote exactly 4 shares, all of them whole
\* in the file
C24_Witness ==
    /\ ShamirWrite
    /\ lastop.status = "ok"
    /\ Len(ShareRanges) = 4
    /\ Cardinality(FreshShares) = 4
    /\ \A seg \in FreshShares : ShareOf(file, phash, seg).k = 4


\* C25 as stated: after a validate() that returns False, self.end is what
\* it was and data() and validate() return what they would have returned
\* had that validate() not been called.
C25_AsStated ==
    [][ (lastop'.op = "validate" /\ lastop'.status = "False") =>
           /\ aba'.end = aba.end
           /\ ABA_data(aba').ret = ABA_data(aba).ret
           /\ ABA_validate(aba').ret = ABA_validate(aba).ret ]_vars


\* arr[header:end] of the ABA a
PayloadOf(a) == SubSeq(a.body, 1, a.end - header)

\* C26: when write_shamir goes on to make the shares, the bytes of the
\* buffer are not above those of the prime (its integer is below p), the
\* payload, its length byte and its checksum are what they were before the
\* scrambling, validate() accepts the buffer and gives that payload, and at
\* least one byte of padding lies above the payload.
C26_BelowPrime ==
    [][ (lastop'.op = "pad" /\ lastop'.status = "ok") =>
           /\ TRUE \in below_prime(aba', lastop'.ret)
           /\ PayloadOf(aba') = PayloadOf(aba)
           /\ aba'.lb = aba.lb /\ aba'.chk = aba.chk /\ aba'.end = aba.end
           /\ ABA_validate(aba').ret
           /\ ABA_data(ABA_validate(aba').obj).ret = PayloadOf(aba)
           /\ Len(aba'.body) > aba'.end - header ]_vars

\* a payload of 55 bytes, which fills a 64-byte array: the array was
\* extended to 128 bytes and scrambled so that its last byte equals the
\* highest byte of the prime and the byte below it decides
C26_Witness ==
    /\ lastop.op = "pad" /\ lastop.status = "ok"
    /\ aba.end = 64
    /\ Len(aba.body) = 128 - header
    /\ aba.body[128 - header] = 128
    /\ lastop.ret.top = 128
    /\ aba.body[127 - header] < lastop.ret.fill
    /\ ABA_validate(aba).ret


\* C27: read_slot tries the Shamir recovery only when it has read all
\* slot_max candidates and none validated; it tries 64-byte shares first
\* and 128-byte shares only when those gave nothing, returns what the first
\* width that recovers a payload gives, and returns the empty bytearray only
\* when no candidate validated and neither width recovered anything.
C27_Fallback ==
    lastop.op = "read_slot" =>
        /\ lastop.widths \in { <<>>, <<slot_len>>, <<slot_len, slot_len * 2>> }
        /\ lastop.widths # <<>> <=>
              (lastop.scanned = slot_max /\ lastop.found = 0 /\ ValidPositions = {})
        /\ lastop.widths = <<slot_len>> =>
              /\ lastop.ret # Empty
              /\ lastop.ret \in read_shamir(file, phash, slot_len)
        /\ lastop.widths = <<slot_len, slot_len * 2>> =>
              /\ read_shamir(file, phash, slot_len) = {}
              /\ lastop.ret # Empty =>
                    lastop.ret \in read_shamir(file, phash, slot_len * 2)
        /\ lastop.ret = Empty =>
              /\ lastop.widths = <<slot_len, slot_len * 2>>
              /\ read_shamir(file, phash, slot_len * 2) = {}

\* a payload stored as 128-byte shares: all nine candidates failed to
\* validate, 64-byte shares gave nothing and 128-byte shares gave the
\* payload
C27_Witness ==
    /\ lastop.op = "read_slot"
    /\ lastop.scanned = slot_max
    /\ lastop.found = 0
    /\ lastop.widths = <<slot_len, slot_len * 2>>
    /\ lastop.ret # Empty
    /\ lastop.ret.len = 55

\* all shares but too few damaged: both widths tried, nothing returned
C27_WitnessEmpty ==
    /\ lastop.op = "read_slot"
    /\ lastop.widths = <<slot_len, slot_len * 2>>
    /\ lastop.ret = Empty
    /\ written # {}


RECURSIVE Binomial(_, _)
\* the number of k-subsets of n elements
Binomial(n, k) ==
    IF k = 0 THEN 1
    ELSE IF n = 0 THEN 0
    ELSE Binomial(n - 1, k - 1) + Binomial(n - 1, k)

\* C(n, 1) + ... + C(n, max_reqs)
ComboBound(n) ==
    Binomial(n, 1) + Binomial(n, 2) + Binomial(n, 3) + Binomial(n, 4)

\* a pass of read_shamir examined subsets of the slot_max share indices of
\* 1 to max_reqs elements, none of them twice, smaller ones first
EachOnceBySize ==
    LET cs == lastop.combos
    IN  /\ \A i \in 1 .. Len(cs) :
              /\ cs[i] \subseteq 1 .. slot_max
              /\ Cardinality(cs[i]) \in 1 .. max_reqs
        /\ Cardinality({ cs[i] : i \in 1 .. Len(cs) }) = Len(cs)
        /\ \A i \in 1 .. (Len(cs) - 1) :
              Cardinality(cs[i]) <= Cardinality(cs[i + 1])

\* C28 as stated: at most a few hundred interpolations (taken as fewer than
\* a thousand) on either layout
C28_AsStated ==
    lastop.op = "read_shamir" =>
        /\ EachOnceBySize
        /\ Len(lastop.combos) < 1000

\* C28 (amended): one pass of read_shamir examines each k-subset of the
\* slot_max share indices at most once, for k = 1 .. max_reqs in increasing
\* k, and ends after at most C(slot_max, 1) + ... + C(slot_max, 4)
\* interpolations: 255 with 9 candidate slots, 3213 with 17.
C28_ComboBound ==
    lastop.op = "read_shamir" =>
        /\ EachOnceBySize
        /\ Len(lastop.combos) <= ComboBound(slot_max)
        /\ ComboBound(slot_max) = IF slot_max = 9 THEN 255 ELSE 3213

\* 17 candidate slots of which none is an intact share: the pass went
\* through all 3213 combinations
C28_Witness ==
    /\ lastop.op = "read_shamir"
    /\ slot_max = 17
    /\ lastop.intact = {}
    /\ lastop.giveup = 0
    /\ Len(lastop.combos) = 3213


OneUpdate(m) ==
    \E u \in m.published :
        /\ m.d0 = u.count /\ m.d1 = u.digest /\ m.d2 = hash8(u.count, u.digest)

\* C30: in every step of the watcher and of check_shared, whatever their
\* interleaving, the reader's count does not decrease; its hash changes
\* only to a digest that update_hash wrote together with the count the
\* reader takes, which is larger than the count it had; and a check_shared
\* whose three slices do not come from one update returns False and changes
\* neither count nor hash.
C30_Snapshot ==
    [][ mouse.state # "none" =>
          /\ mouse'.count >= mouse.count
          /\ mouse'.hash # mouse.hash =>
                /\ [count |-> mouse'.count, digest |-> mouse'.hash] \in mouse.published
                /\ mouse'.count > mouse.count
          /\ (mouse.state = "d2" /\ mouse'.state = "idle" /\ ~ OneUpdate(mouse)) =>
                /\ ~ mouse'.ret
                /\ mouse'.count = mouse.count /\ mouse'.hash = mouse.hash ]_vars

\* check_shared has read the count of the first update and digest and check
\* of the second, and returned False with count and hash as they were
C30_Witness ==
    /\ mouse.state = "idle"
    /\ mouse.d0 = 1
    /\ mouse.d1 = <<"digest", 2>>
    /\ mouse.d2 = hash8(2, <<"digest", 2>>)
    /\ ~ mouse.ret
    /\ mouse.count = 0
    /\ mouse.hash = <<"urandom">>

====
